---- MODULE Spec2Model ----
(***************************************************************************)
(* flowmate: execution orchestration core.                                 *)
(*                                                                         *)
(* Spec        ExecutionService.execute and the callbacks it registers     *)
(*             (result/error message, worker exit, timeout timer, launch   *)
(*             failure) together with the CostTracker it owns.  One action *)
(*             is one event-loop step: the handler and the promise         *)
(*             reactions (microtasks) it triggers.                         *)
(* SpecTracker CostTracker on its own: checkBudget / reserve / release     *)
(*             called directly, over a database of finished executions.    *)
(* SpecLive    Spec with the timeout timer's callback weakly fair.         *)
(* SpecHistory truncateHistory over the messages saved in a conversation.  *)
(* SpecBackend one worker's stderr lines and close event as a backend      *)
(*             delivers them to the callbacks.                             *)
(* SpecDrain   the core during shutdown, with ExecutionService.drain;      *)
(*             SpecDrainLive makes drain's deadline timer weakly fair.     *)
(* SpecHandlers the Slack message handler and its thread lock around the   *)
(*             core.                                                       *)
(* SpecProgress execute's progress callback and its debounce clock.        *)
(* SpecIpc     serializeIpc / parseIpcLine / isValidIpcMessage over the    *)
(*             characters of the lines written to stderr.                  *)
(* SpecPipe    a launched execution fed with worker lines through the      *)
(*             backend's line handler.                                     *)
(* SpecKill    LocalRunner.run / kill and the child's exit and close;      *)
(*             SpecKillLive makes the grace timer weakly fair.             *)
(* SpecCli     dev-cli's runPrompt around the core.                        *)
(* SpecDaily   CostTracker.getDailyCost(date) over dated rows, with        *)
(*             dateRangeInTz.                                              *)
(* SpecBudget  Spec under several configurations of config.limits.         *)
(* SpecProgressLate  SpecProgress with executions ending by timeout.       *)
(* SpecShutdown main's signal handlers and shutdown around drain.          *)
(* SpecLock    the message handlers of one thread; SpecLockLive makes the  *)
(*             callbacks that are ready to run weakly fair.                *)
(***************************************************************************)
EXTENDS Integers, FiniteSets, Sequences, TLC

\* ---------------------------------------------------------------- bounds
\* number of execute calls that pass the budget check
MaxExec == 2
\* config.limits.dailyBudgetLimit and config.limits.maxBudgetPerTask of the
\* ExecutionService under test (cost is counted in whole units)
DailyLimit == 3
PerTaskCap == 2
\* SpecTracker: reservations taken, calls of one release function, rows of
\* today's finished executions and the largest cost on one of them
MaxRes == 3
MaxReleaseCalls == 2
MaxRows == 1
MaxRecCost == 2
\* SpecHistory: messages saved in the conversation, and the largest
\* maxHistoryMessages configured
MaxHistory == 4
MaxKeep == 3
\* SpecBackend: lines one worker writes to stderr
MaxLines == 3
\* SpecHandlers: inbound Slack messages
MaxMsgs == 2
\* SpecTracker: the arguments checkBudget is called with
DailyLimitArgs == {0, 4, 10}
PerTaskCapArgs == {0, 1, 3}

Execs == 1..MaxExec

\* nullable column / variable: <<>> is null, <<x>> is the value x
None == <<>>
Some(x) == <<x>>
NULL == <<>>
\* a text value (message text, error message); the empty tuple is null
Text(s) == <<s>>

\* ------------------------------------------------------------ variables
VARIABLES
  executions,          \* executions table: id -> row ("none": no row)
  pendingReservations, \* CostTracker.pendingReservations
  released,            \* per reservation: "unused" | "held" | "released"
  releaseCalls,        \* history: calls of each release function
  decrements,          \* history: decrements done by each release function
  lastBudget,          \* history: arguments and result of the last direct
                       \* checkBudget call (SpecTracker)
  resultReceived,      \* closure variable of execute, per execution
  runnerId,            \* closure variable of execute, per execution
  timer,               \* the timeout timer: "none" | "armed" | "cleared" | "fired"
  promise,             \* executionPromise: [state, value]
  activeExecutions,    \* ExecutionService.activeExecutions (its key set)
  taskCap,             \* taskConfig.limits.maxBudgetPerTask handed to the worker
  worker,              \* the worker process: "none" | "alive" (query running)
                       \* | "reported" (outcome of the query emitted) |
                       \* "finishing" (catch block has emitted) | "exited"
  kills,               \* runner.kill per worker: "none" | "requested" | "done"
  lastCall,            \* the most recent execute call: "none" |
                       \* "budget_exceeded" (thrown at the check) | "admitted"
  launchLog,           \* history: per execution, what execute did with its
                       \* row and the backend, in order, with the status and
                       \* containerId persisted after each
  history,             \* messages of the conversation, oldest first
                       \* (what getConversationHistory returns)
  maxHistoryMessages,  \* config.limits.maxHistoryMessages
  conversationHistory, \* taskConfig.conversationHistory of the last payload built
  child,               \* a spawned worker: "none" | "running" | "exited" (process
                       \* ended, stdio not yet closed) | "closed"
  stderr,              \* lines the worker wrote that readline has not delivered
  emitted,             \* history: the lines the worker wrote, in order
  callbacks,           \* history: RunCallbacks invoked, in order
  limits,              \* config.limits: dailyBudgetLimit, maxBudgetPerTask
  drainCall,           \* ExecutionService.drain: "none" | "waiting" | "returned"
  drainPromise,        \* executions whose promises drain's allSettled waits for
  drainTimer,          \* drain's deadline timer: "none" | "armed" | "fired"
  drainKills,          \* history: workers drain asked the backend to kill
  threadLocks,         \* registerHandlers: Set of thread keys
  handlers,            \* per inbound message, its handler: pc ("idle": not
                       \* arrived), threadKey, execution (id execute gave it),
                       \* error (what its catch block caught)
  messages,            \* messages table: per conversation thread, oldest first
  posted,              \* history: per inbound message, the notices posted for it
  now,                 \* Date.now(), in ms
  lastProgressTime,    \* closure variable of execute, per execution
  arrived,             \* history: progress messages handed to onMessage, with
                       \* the time of arrival
  onProgress,          \* history: invocations of params.onProgress, with the
                       \* time of the invocation
  written,             \* history: the value whose JSON text was last written
                       \* to stderr (SpecIpc)
  processes,           \* LocalRunner.processes (its key set)
  proc,                \* per process id, the ChildProcess: state ("none": never
                       \* spawned | "running" | "exited": 'exit' emitted |
                       \* "closed": 'close' emitted), exitCode, signalCode
  signals,             \* history: per process id, the signals sent to it
  killCalls,           \* per call of LocalRunner.kill: state ("none" |
                       \* "waiting" | "returned"), containerId, forceKill timer
  cli,                 \* dev-cli, the runPrompt in progress: pc, execution,
                       \* error (what its catch block caught)
  console,             \* history: what dev-cli printed
  cliMessages,         \* messages table: the CLI conversation, oldest first
  timezone,            \* CostTracker.timezone
  started,             \* executions table, startedAt (hours, UTC) and costUsd
                       \* of each row (SpecDaily)
  lastDaily,           \* history: date and result of the last getDailyCost(date)
  shuttingDown,        \* main: let shuttingDown
  shutdown,            \* the shutdown call that passed the flag: "idle" |
                       \* "app.stop" | "drain" (awaiting that call) | "exited"
  shutdownLog,         \* history: what shutdown calls did, in order
  signalled            \* history: number of SIGTERM / SIGINT delivered

coreVars == <<executions, pendingReservations, released, releaseCalls, decrements,
              lastBudget, resultReceived, runnerId, timer, promise,
              activeExecutions, taskCap, worker, kills, lastCall, launchLog>>
historyVars == <<history, maxHistoryMessages, conversationHistory>>

streamVars == <<child, stderr, emitted, callbacks>>

drainVars == <<drainCall, drainPromise, drainTimer, drainKills>>

handlerVars == <<threadLocks, handlers, messages, posted>>

progressVars == <<now, lastProgressTime, arrived, onProgress>>

\* the variables of the parts modelled on their own
killVars == <<processes, proc, signals, killCalls>>

cliVars == <<cli, console, cliMessages>>

dailyVars == <<timezone, started, lastDaily>>

shutdownVars == <<shuttingDown, shutdown, shutdownLog, signalled>>

partVars == <<progressVars, written, killVars, cliVars, dailyVars, shutdownVars>>

vars == <<coreVars, limits, historyVars, streamVars, drainVars, handlerVars, partVars>>

\* what the specifications of one part leave alone
nonCore == <<limits, historyVars, streamVars, drainVars, handlerVars, partVars>>
nonHistory == <<coreVars, limits, streamVars, drainVars, handlerVars, partVars>>
nonStream == <<coreVars, limits, historyVars, drainVars, handlerVars, partVars>>
nonDrain == <<limits, historyVars, streamVars, handlerVars, partVars>>
nonHandler == <<limits, historyVars, streamVars, drainVars, partVars>>
nonProgress == <<limits, historyVars, streamVars, drainVars, handlerVars, written, killVars,
                 cliVars, dailyVars,
      shutdownVars>>
nonIpc == <<coreVars, limits, historyVars, drainVars, handlerVars, progressVars, killVars,
            cliVars, dailyVars,
      shutdownVars>>
nonPipe == <<limits, historyVars, drainVars, handlerVars, written, killVars, cliVars,
             dailyVars,
      shutdownVars>>
nonKill == <<coreVars, limits, historyVars, streamVars, drainVars, handlerVars,
             progressVars, written, cliVars, dailyVars,
      shutdownVars>>
nonCli == <<limits, historyVars, streamVars, drainVars, handlerVars, progressVars, written,
            killVars, dailyVars,
      shutdownVars>>
nonDaily == <<coreVars, limits, historyVars, streamVars, drainVars, handlerVars,
              progressVars, written, killVars, cliVars, shutdownVars>>
nonShutdown == <<limits, historyVars, streamVars, handlerVars, progressVars, written,
                 killVars, cliVars, dailyVars>>

trackerVars == <<pendingReservations, released, releaseCalls, decrements>>
closureVars == <<resultReceived, runnerId, timer, promise, taskCap, worker, kills>>

\* ------------------------------------------------------------- database
NoRow == [status |-> "none", resultText |-> NULL, errorMessage |-> NULL,
          costUsd |-> None, inputTokens |-> None, outputTokens |-> None,
          cacheReadTokens |-> None, cacheWriteTokens |-> None,
          durationMs |-> None, numTurns |-> None, containerId |-> None]

TerminalStatus == {"completed", "failed", "error", "timeout"}

\* COALESCE(costUsd, 0)
Coalesce(c) == IF c = None THEN 0 ELSE c[1]

RECURSIVE SumCost(_, _)
SumCost(rows, ids) ==
  IF ids = {} THEN 0
  ELSE LET i == CHOOSE x \in ids : TRUE
       IN Coalesce(rows[i].costUsd) + SumCost(rows, ids \ {i})

\* CostTracker.getDailyCost: every modelled row was started today
getDailyCost(rows) ==
  SumCost(rows, {i \in DOMAIN rows : rows[i].status # "none"})

\* -------------------------------------------------------------- tracker
Max(a, b) == IF a >= b THEN a ELSE b
Min(a, b) == IF a <= b THEN a ELSE b

checkBudgetNoReservation(dailyLimit, maxBudgetPerTask, used, pending) ==
  LET remaining == Max(0, dailyLimit - used)
  IN [allowed |-> remaining >= maxBudgetPerTask, remaining |-> remaining]

\* a variant that admits a task while anything is left of the day's budget
checkBudgetAnyLeft(dailyLimit, maxBudgetPerTask, used, pending) ==
  LET reserved == pending * maxBudgetPerTask
      remaining == Max(0, dailyLimit - used - reserved)
  IN [allowed |-> remaining > 0, remaining |-> remaining]

checkBudget(dailyLimit, maxBudgetPerTask, used, pending) ==
  LET reserved == pending * maxBudgetPerTask
      remaining == Max(0, dailyLimit - used - reserved)
  IN [allowed |-> remaining >= maxBudgetPerTask, remaining |-> remaining]

\* the release closure returned by reserve(): flag is its `released` variable
releaseInverted(flag, pending) ==
  IF flag = "released"
  THEN [flag |-> "released", pending |-> pending - 1, dec |-> 1]
  ELSE [flag |-> flag, pending |-> pending, dec |-> 0]

releaseAlways(flag, pending) ==
  [flag |-> "released", pending |-> pending - 1, dec |-> 1]

release(flag, pending) ==
  IF flag # "released"
  THEN [flag |-> "released", pending |-> pending - 1, dec |-> 1]
  ELSE [flag |-> flag, pending |-> pending, dec |-> 0]


\* --------------------------------------------------------------- helpers
clearTimeout(t) == IF t = "armed" THEN "cleared" ELSE t

\* resolve()/reject() of a promise: only the first call has an effect
settle(p, state, value) ==
  IF p.state = "pending" THEN [state |-> state, value |-> value] ELSE p

\* the execute call that is being made takes the lowest unused slot; the
\* slot number stands for the row id of the execution it may create
Unused == {e \in Execs : released[e] = "unused"}
NextId == CHOOSE e \in Unused : \A o \in Unused : e <= o

Budget ==
  checkBudget(limits.dailyBudgetLimit, limits.maxBudgetPerTask,
              getDailyCost(executions), pendingReservations)

\* the cost a worker can report: the agent SDK stops at maxBudgetUsd, so the
\* modelled workers report nothing or the whole cap they were given
WorkerCosts(e) == {0, taskCap[e]}

\* a variant whose finally reaction releases but leaves the registry alone
SettlementKeepsEntry(e, state, value) ==
  LET first == promise[e].state = "pending"
      r == release(released[e], pendingReservations)
  IN /\ promise' = [promise EXCEPT ![e] = settle(@, state, value)]
     /\ UNCHANGED activeExecutions
     /\ IF first
        THEN /\ released' = [released EXCEPT ![e] = r.flag]
             /\ pendingReservations' = r.pending
             /\ releaseCalls' = [releaseCalls EXCEPT ![e] = @ + 1]
             /\ decrements' = [decrements EXCEPT ![e] = @ + r.dec]
        ELSE UNCHANGED trackerVars

\* resolve/reject of executionPromise followed by its finally reaction
Settlement(e, state, value) ==
  LET first == promise[e].state = "pending"
      r == release(released[e], pendingReservations)
  IN /\ promise' = [promise EXCEPT ![e] = settle(@, state, value)]
     /\ IF first
        THEN /\ activeExecutions' = activeExecutions \ {e}
             /\ released' = [released EXCEPT ![e] = r.flag]
             /\ pendingReservations' = r.pending
             /\ releaseCalls' = [releaseCalls EXCEPT ![e] = @ + 1]
             /\ decrements' = [decrements EXCEPT ![e] = @ + r.dec]
        ELSE UNCHANGED <<activeExecutions, trackerVars>>

\* ----------------------------------------------------------------- Init
\* the limits of the service under test
TightLimits ==
  limits = [dailyBudgetLimit |-> DailyLimit, maxBudgetPerTask |-> PerTaskCap]

\* inbound messages and the two conversation threads they are written in
Msgs == 1..MaxMsgs
ThreadKeys == {"D1:100.1", "D1:200.2"}

NoHandler == [pc |-> "idle", threadKey |-> NULL, execution |-> None, error |-> None]

\* no message received
HandlersIdle ==
  /\ threadLocks = {}
  /\ handlers = [m \in Msgs |-> NoHandler]
  /\ messages = [t \in ThreadKeys |-> <<>>]
  /\ posted = [m \in Msgs |-> {}]

\* const PROGRESS_DEBOUNCE_MS = 3000
PROGRESS_DEBOUNCE_MS == 3000

\* Date.now() when the program starts: ms since 1970, no less than the
\* debounce window
ClockStart == PROGRESS_DEBOUNCE_MS

\* let lastProgressTime = 0 in every closure, no progress message yet
ProgressIdle ==
  /\ now = ClockStart
  /\ lastProgressTime = [e \in Execs |-> 0]
  /\ arrived = <<>>
  /\ onProgress = <<>>

\* processes a LocalRunner can have spawned, and calls of its kill
MaxProcs == 1
MaxKills == 2
Procs == 1..MaxProcs
Kills == 1..MaxKills

NoProc == [state |-> "none", exitCode |-> None, signalCode |-> None]
NoKill == [state |-> "none", containerId |-> None, forceKill |-> "none"]

\* a LocalRunner that has spawned nothing
KillIdle ==
  /\ processes = {}
  /\ proc = [id \in Procs |-> NoProc]
  /\ signals = [id \in Procs |-> <<>>]
  /\ killCalls = [k \in Kills |-> NoKill]

NoPrompt == [pc |-> "idle", execution |-> None, error |-> None]

\* dev-cli before its first prompt
CliIdle ==
  /\ cli = NoPrompt
  /\ console = <<>>
  /\ cliMessages = <<>>

\* a CostTracker in UTC over an empty table
DailyIdle ==
  /\ timezone = "UTC"
  /\ started = <<>>
  /\ lastDaily = None

\* the process has received no signal
ShutdownIdle ==
  /\ shuttingDown = FALSE
  /\ shutdown = "idle"
  /\ shutdownLog = <<>>
  /\ signalled = 0

\* the parts modelled on their own, untouched
PartsIdle ==
  ProgressIdle /\ written = None /\ KillIdle /\ CliIdle /\ DailyIdle /\ ShutdownIdle

\* drain not called
DrainIdle ==
  /\ drainCall = "none"
  /\ drainPromise = {}
  /\ drainTimer = "none"
  /\ drainKills = {}

\* no worker spawned
StreamIdle ==
  /\ child = "none"
  /\ stderr = <<>>
  /\ emitted = <<>>
  /\ callbacks = <<>>

\* no conversation loaded, no payload built
HistoryIdle ==
  /\ history = <<>>
  /\ maxHistoryMessages = 0
  /\ conversationHistory = None

\* no execute call made yet
CoreIdle ==
  /\ executions = [e \in Execs |-> NoRow]
  /\ pendingReservations = 0
  /\ released = [e \in Execs |-> "unused"]
  /\ releaseCalls = [e \in Execs |-> 0]
  /\ decrements = [e \in Execs |-> 0]
  /\ lastBudget = None
  /\ resultReceived = [e \in Execs |-> FALSE]
  /\ runnerId = [e \in Execs |-> None]
  /\ timer = [e \in Execs |-> "none"]
  /\ promise = [e \in Execs |-> [state |-> "none", value |-> NULL]]
  /\ activeExecutions = {}
  /\ taskCap = [e \in Execs |-> 0]
  /\ worker = [e \in Execs |-> "none"]
  /\ kills = [e \in Execs |-> "none"]
  /\ lastCall = "none"
  /\ launchLog = [e \in Execs |-> <<>>]

Init ==
  CoreIdle /\ TightLimits /\ HistoryIdle /\ StreamIdle /\ DrainIdle /\ HandlersIdle /\ PartsIdle

\* ------------------------------------------------------ execute: 4 paths
\* a variant that takes the reservation before it tests the budget
ExecuteRejectedAfterReserve ==
  /\ ~Budget.allowed
  /\ pendingReservations' = pendingReservations + 1
  /\ lastCall' = "budget_exceeded"
  /\ UNCHANGED <<executions, released, releaseCalls, decrements, lastBudget,
                 closureVars, activeExecutions, launchLog>>

\* budget check fails: throw "Daily budget exceeded"
ExecuteRejected ==
  /\ ~Budget.allowed
  /\ lastCall' = "budget_exceeded"
  /\ UNCHANGED <<executions, trackerVars, lastBudget, closureVars,
                 activeExecutions, launchLog>>

\* reservation taken, then getConversationHistory or the insert throws
ExecuteThrows(failAt) ==
  /\ Budget.allowed
  /\ Unused # {}
  /\ failAt \in {"history", "insert"}
  /\ pendingReservations' = pendingReservations + 1
  /\ released' = [released EXCEPT ![NextId] = "held"]
  /\ lastCall' = "admitted"
  /\ UNCHANGED <<executions, releaseCalls, decrements, lastBudget,
                 closureVars, activeExecutions, launchLog>>

\* a variant that hands the worker all that remains of the day's budget
taskBudgetAllRemaining(configured, remaining) == remaining

\* taskConfig.limits.maxBudgetPerTask: Math.min(configured, budget.remaining)
taskBudget(configured, remaining) == Min(configured, remaining)

\* db.insert(executions).values({status: "pending", ...})
insertedRow == [NoRow EXCEPT !.status = "pending"]

\* a variant that leaves the row as it was inserted
runningRowUnwritten(row) == row

\* db.update(executions).set({status: "running"}), before runner.run
runningRow(row) == [row EXCEPT !.status = "running"]

\* db.update(executions).set({containerId: handle.containerId}) of .then
handleRow(row, id) == [row EXCEPT !.containerId = Some(id)]

\* one entry of launchLog: a statement of execute, and the status and the
\* containerId of the row after it
Did(op, row) == <<op, row.status, row.containerId>>

\* the whole call when runner.run resolves: row pending -> running, timer
\* armed, callbacks registered, registry entry set, then the .then reaction
ExecuteLaunched ==
  LET e == NextId
      atLaunch == runningRow(insertedRow)
  IN /\ Budget.allowed
     /\ Unused # {}
     /\ pendingReservations' = pendingReservations + 1
     /\ released' = [released EXCEPT ![e] = "held"]
     /\ executions' = [executions EXCEPT ![e] = handleRow(atLaunch, e)]
     /\ launchLog' = [launchLog EXCEPT ![e] =
            <<Did("insert", insertedRow), Did("update", atLaunch),
              Did("run", atLaunch), Did("then", handleRow(atLaunch, e))>>]
     /\ taskCap' = [taskCap EXCEPT ![e] =
            taskBudget(limits.maxBudgetPerTask, Budget.remaining)]
     /\ timer' = [timer EXCEPT ![e] = "armed"]
     /\ promise' = [promise EXCEPT ![e] = [state |-> "pending", value |-> NULL]]
     /\ worker' = [worker EXCEPT ![e] = "alive"]
     /\ runnerId' = [runnerId EXCEPT ![e] = Some(e)]
     /\ activeExecutions' = activeExecutions \cup {e}
     /\ lastCall' = "admitted"
     /\ UNCHANGED <<releaseCalls, decrements, lastBudget, resultReceived, kills>>

\* the error runner.run rejects with (spawn failure)
LaunchError == Text("spawn failed")

\* a variant that writes the status alone
launchFailedRowNoMessage(row, err) ==
  [row EXCEPT !.status = "error"]

\* .catch reaction of runner.run: status error with the error's message
launchFailedRow(row, err) ==
  [row EXCEPT !.status = "error", !.errorMessage = err]

\* the whole call when runner.run rejects: the .catch reaction clears the
\* timer, writes status error and rejects; finally deletes the entry that
\* line 341 has just set and releases the reservation
ExecuteLaunchFailed ==
  LET e == NextId
      r == release("held", pendingReservations + 1)
      atLaunch == runningRow(insertedRow)
  IN /\ Budget.allowed
     /\ Unused # {}
     /\ executions' = [executions EXCEPT ![e] = launchFailedRow(atLaunch, LaunchError)]
     /\ launchLog' = [launchLog EXCEPT ![e] =
            <<Did("insert", insertedRow), Did("update", atLaunch),
              Did("run", atLaunch), Did("catch", launchFailedRow(atLaunch, LaunchError))>>]
     /\ taskCap' = [taskCap EXCEPT ![e] =
            taskBudget(limits.maxBudgetPerTask, Budget.remaining)]
     /\ timer' = [timer EXCEPT ![e] = clearTimeout("armed")]
     /\ promise' = [promise EXCEPT ![e] =
            settle([state |-> "pending", value |-> NULL], "rejected", LaunchError)]
     /\ activeExecutions' = (activeExecutions \cup {e}) \ {e}
     /\ released' = [released EXCEPT ![e] = r.flag]
     /\ pendingReservations' = r.pending
     /\ releaseCalls' = [releaseCalls EXCEPT ![e] = @ + 1]
     /\ decrements' = [decrements EXCEPT ![e] = @ + r.dec]
     /\ lastCall' = "admitted"
     /\ UNCHANGED <<lastBudget, resultReceived, runnerId, worker, kills>>

\* ------------------------------------------------------ worker callbacks
\* the worker is running and its close event has not been delivered
Running == {"alive", "reported", "finishing"}

\* what the worker reports with the outcome of a query
ReportedTokens == [input |-> 3, output |-> 2, cacheRead |-> 1, cacheWrite |-> 1]
ZeroTokens == [input |-> 0, output |-> 0, cacheRead |-> 0, cacheWrite |-> 0]

\* the IPC result message of a query that ended with subtype success
ResultMsg(cost) ==
  [type |-> "result", text |-> Text("text"), costUsd |-> cost,
   tokensUsed |-> ReportedTokens, durationMs |-> 2, numTurns |-> 1]

\* the IPC error message: of a query that ended with another subtype (path
\* "sdk") or of the worker's catch block (path "catch": no cost, no usage)
ErrorMsg(cost, path) ==
  IF path = "sdk"
  THEN [type |-> "error", message |-> Text("error_max_turns"), costUsd |-> cost,
        tokensUsed |-> ReportedTokens, durationMs |-> 2, numTurns |-> 1]
  ELSE [type |-> "error", message |-> Text("exception"), costUsd |-> 0,
        tokensUsed |-> ZeroTokens, durationMs |-> 2, numTurns |-> 0]

\* the usage columns both message handlers write
usageColumns(row, msg) ==
  [row EXCEPT !.costUsd = Some(msg.costUsd),
              !.inputTokens = Some(msg.tokensUsed.input),
              !.outputTokens = Some(msg.tokensUsed.output),
              !.cacheReadTokens = Some(msg.tokensUsed.cacheRead),
              !.cacheWriteTokens = Some(msg.tokensUsed.cacheWrite),
              !.durationMs = Some(msg.durationMs),
              !.numTurns = Some(msg.numTurns)]

\* a variant that records the outcome but not what it cost
resultRowNoUsage(row, msg) ==
  [row EXCEPT !.status = "completed", !.resultText = msg.text]

\* db.update(executions).set({status: "completed", ...}) of the result branch
resultRow(row, msg) ==
  usageColumns([row EXCEPT !.status = "completed", !.resultText = msg.text], msg)

\* db.update(executions).set({status: "failed", ...}) of the error branch
errorRow(row, msg) ==
  usageColumns([row EXCEPT !.status = "failed", !.errorMessage = msg.message], msg)

\* resolve({text, costUsd, executionId})
resultValue(e, msg) == <<msg.text, msg.costUsd, e>>

\* how a worker ends: exit code or signal, as the close event reports them
ExitStatuses == {[code |-> Some(1), signal |-> None],
                 [code |-> None, signal |-> Some("SIGTERM")]}

\* a variant that formats the message without the worker identifier
exitMessageNoId(code, signal, rid) ==
  <<"Runner exited without IPC result", code, signal, None>>

\* `Runner exited without IPC result (code=.., signal=.., containerId=..)`
exitMessage(code, signal, rid) ==
  <<"Runner exited without IPC result", code, signal, rid>>

\* db.update(executions).set({status: "error", errorMessage}) of onExit
exitRow(row, code, signal, rid) ==
  [row EXCEPT !.status = "error", !.errorMessage = exitMessage(code, signal, rid)]

\* a variant that rejects on timeout without touching the row
timeoutRowUnwritten(row) == row

\* db.update(executions).set({status: "timeout", ...}) of the timer callback
timeoutRow(row) ==
  [row EXCEPT !.status = "timeout", !.errorMessage = Text("Task timed out")]

\* onMessage, msg.type = "result": the query ended with subtype success
OnResult(e, cost) ==
  /\ worker[e] = "alive"
  /\ cost \in WorkerCosts(e)
  /\ worker' = [worker EXCEPT ![e] = "reported"]
  /\ resultReceived' = [resultReceived EXCEPT ![e] = TRUE]
  /\ timer' = [timer EXCEPT ![e] = clearTimeout(@)]
  /\ executions' = [executions EXCEPT ![e] = resultRow(@, ResultMsg(cost))]
  /\ Settlement(e, "resolved", resultValue(e, ResultMsg(cost)))
  /\ UNCHANGED <<lastBudget, runnerId, taskCap, kills, lastCall, launchLog>>

\* onMessage, msg.type = "error": either the query ended with another subtype
\* (path "sdk", cost as reported), or the worker's catch block reports an
\* exception of the query loop, also after a result was emitted (path "catch",
\* cost 0)
OnError(e, cost, path) ==
  /\ \/ /\ path = "sdk"
        /\ worker[e] = "alive"
        /\ cost \in WorkerCosts(e)
        /\ worker' = [worker EXCEPT ![e] = "reported"]
     \/ /\ path = "catch"
        /\ worker[e] \in {"alive", "reported"}
        /\ cost = 0
        /\ worker' = [worker EXCEPT ![e] = "finishing"]
  /\ resultReceived' = [resultReceived EXCEPT ![e] = TRUE]
  /\ timer' = [timer EXCEPT ![e] = clearTimeout(@)]
  /\ executions' = [executions EXCEPT ![e] = errorRow(@, ErrorMsg(cost, path))]
  /\ Settlement(e, "rejected", ErrorMsg(cost, path).message)
  /\ UNCHANGED <<lastBudget, runnerId, taskCap, kills, lastCall, launchLog>>

\* a variant of onExit that clears the timer and logs, without rejecting
OnExitNoReject(e, st) ==
  /\ worker[e] \in Running
  /\ st \in ExitStatuses
  /\ worker' = [worker EXCEPT ![e] = "exited"]
  /\ timer' = [timer EXCEPT ![e] = clearTimeout(@)]
  /\ UNCHANGED <<executions, promise, activeExecutions, trackerVars, lastBudget,
                 resultReceived, runnerId, taskCap, kills, lastCall, launchLog>>

\* onExit: the backend's close event, once per worker, after its last line
OnExit(e, st) ==
  /\ worker[e] \in Running
  /\ st \in ExitStatuses
  /\ worker' = [worker EXCEPT ![e] = "exited"]
  /\ timer' = [timer EXCEPT ![e] = clearTimeout(@)]
  /\ IF ~resultReceived[e]
     THEN /\ executions' = [executions EXCEPT ![e] =
                 exitRow(@, st.code, st.signal, runnerId[e])]
          /\ Settlement(e, "rejected", exitMessage(st.code, st.signal, runnerId[e]))
     ELSE UNCHANGED <<executions, promise, activeExecutions, trackerVars>>
  /\ UNCHANGED <<lastBudget, resultReceived, runnerId, taskCap, kills, lastCall, launchLog>>

\* ---------------------------------------------------------- timeout timer
timeoutKillNever(rid, ks) == ks

\* if (runnerId) this.runner.kill(runnerId): fire and forget
timeoutKill(rid, ks) ==
  IF rid # None THEN [ks EXCEPT ![rid[1]] = "requested"] ELSE ks

Timeout(e) ==
  /\ timer[e] = "armed"
  /\ timer' = [timer EXCEPT ![e] = "fired"]
  /\ IF ~resultReceived[e]
     THEN /\ kills' = timeoutKill(runnerId[e], kills)
          /\ executions' = [executions EXCEPT ![e] = timeoutRow(@)]
          /\ Settlement(e, "rejected", Text("Task timed out"))
     ELSE UNCHANGED <<kills, executions, promise, activeExecutions, trackerVars>>
  /\ UNCHANGED <<lastBudget, resultReceived, runnerId, taskCap, worker, lastCall, launchLog>>

\* the backend finishes a kill (stop command exited / child exited / grace over)
KillComplete(e) ==
  /\ kills[e] = "requested"
  /\ kills' = [kills EXCEPT ![e] = "done"]
  /\ UNCHANGED <<executions, trackerVars, lastBudget, resultReceived, runnerId,
                 timer, promise, activeExecutions, taskCap, worker, lastCall, launchLog>>

Next ==
  \/ ExecuteRejected /\ UNCHANGED nonCore
  \/ \E failAt \in {"history", "insert"} :
       ExecuteThrows(failAt) /\ UNCHANGED nonCore
  \/ ExecuteLaunched /\ UNCHANGED nonCore
  \/ ExecuteLaunchFailed /\ UNCHANGED nonCore
  \/ \E e \in Execs : \E cost \in 0..PerTaskCap :
       OnResult(e, cost) /\ UNCHANGED nonCore
  \/ \E e \in Execs : \E cost \in 0..PerTaskCap :
       \E path \in {"sdk", "catch"} : OnError(e, cost, path) /\ UNCHANGED nonCore
  \/ \E e \in Execs : \E st \in ExitStatuses : OnExit(e, st) /\ UNCHANGED nonCore
  \/ \E e \in Execs : Timeout(e) /\ UNCHANGED nonCore
  \/ \E e \in Execs : KillComplete(e) /\ UNCHANGED nonCore

Spec == Init /\ [][Next]_vars

\* the same program with the one scheduling fact the runtime gives: a timer
\* that was started and not cleared fires
SpecLive == Spec /\ \A e \in Execs : WF_vars(Timeout(e) /\ UNCHANGED nonCore)


\* ============================================================ SpecTracker
\* CostTracker driven directly: reserve(), the release functions it returned
\* and checkBudget(dailyLimit, maxBudgetPerTask), in any order.
Handles == 1..MaxRes

FinishedRows ==
  [status : {"completed"}, resultText : {Text("text")}, errorMessage : {NULL},
   costUsd : {None} \cup {Some(c) : c \in 0..MaxRecCost},
   inputTokens : {None}, outputTokens : {None}, cacheReadTokens : {None},
   cacheWriteTokens : {None}, durationMs : {None}, numTurns : {None},
   containerId : {None}]

TrackerInit ==
  /\ executions \in [1..MaxRows -> FinishedRows]
  /\ pendingReservations = 0
  /\ released = [h \in Handles |-> "unused"]
  /\ releaseCalls = [h \in Handles |-> 0]
  /\ decrements = [h \in Handles |-> 0]
  /\ lastBudget = None
  /\ resultReceived = [e \in Execs |-> FALSE]
  /\ runnerId = [e \in Execs |-> None]
  /\ timer = [e \in Execs |-> "none"]
  /\ promise = [e \in Execs |-> [state |-> "none", value |-> NULL]]
  /\ activeExecutions = {}
  /\ taskCap = [e \in Execs |-> 0]
  /\ worker = [e \in Execs |-> "none"]
  /\ kills = [e \in Execs |-> "none"]
  /\ lastCall = "none"
  /\ launchLog = [e \in Execs |-> <<>>]
  /\ TightLimits
  /\ HistoryIdle
  /\ StreamIdle
  /\ DrainIdle
  /\ HandlersIdle /\ PartsIdle

\* reserve(): this.pendingReservations++, a fresh closure with released = false
TReserve ==
  /\ \E h \in Handles : released[h] = "unused"
  /\ LET h == CHOOSE x \in Handles :
                 released[x] = "unused" /\ \A o \in Handles : released[o] = "unused" => x <= o
     IN released' = [released EXCEPT ![h] = "held"]
  /\ pendingReservations' = pendingReservations + 1
  /\ UNCHANGED <<executions, releaseCalls, decrements, lastBudget, closureVars,
                 activeExecutions, lastCall, launchLog>>

\* one call of the release function of reservation h
TRelease(h) ==
  LET r == release(released[h], pendingReservations)
  IN /\ released[h] # "unused"
     /\ releaseCalls[h] < MaxReleaseCalls
     /\ released' = [released EXCEPT ![h] = r.flag]
     /\ pendingReservations' = r.pending
     /\ releaseCalls' = [releaseCalls EXCEPT ![h] = @ + 1]
     /\ decrements' = [decrements EXCEPT ![h] = @ + r.dec]
     /\ UNCHANGED <<executions, lastBudget, closureVars, activeExecutions, lastCall, launchLog>>

\* one call of checkBudget
TCheckBudget(dailyLimit, maxBudgetPerTask) ==
  LET b == checkBudget(dailyLimit, maxBudgetPerTask,
                       getDailyCost(executions), pendingReservations)
  IN /\ lastBudget' = Some([dailyLimit |-> dailyLimit,
                            maxBudgetPerTask |-> maxBudgetPerTask,
                            allowed |-> b.allowed, remaining |-> b.remaining])
     /\ UNCHANGED <<executions, trackerVars, closureVars, activeExecutions, lastCall, launchLog>>

TrackerNext ==
  \/ TReserve /\ UNCHANGED nonCore
  \/ \E h \in Handles : TRelease(h) /\ UNCHANGED nonCore
  \/ \E dl \in DailyLimitArgs : \E cap \in PerTaskCapArgs :
       TCheckBudget(dl, cap) /\ UNCHANGED nonCore

SpecTracker == TrackerInit /\ [][TrackerNext]_vars


\* ============================================================ SpecHistory
\* The conversation history of one conversation and the payload execute
\* builds from it: saveMessage appends, execute loads and truncates.
Roles == {"user", "assistant"}

\* the content of the i-th message saved
Content(i) == <<"message", i>>

\* `[${omitted} earlier messages omitted for context window efficiency]`
omittedNote(omitted) ==
  <<"[", omitted, " earlier messages omitted for context window efficiency]">>

\* Array.prototype.slice(start): a negative start counts from the end, and
\* -0 is 0
slice(arr, start) ==
  LET len == Len(arr)
      from == IF start < 0 THEN Max(len + start, 0) ELSE Min(start, len)
  IN SubSeq(arr, from + 1, len)

\* a variant that keeps the oldest messages
truncateHistoryOldest(hist, maxMessages) ==
  IF Len(hist) <= maxMessages
  THEN hist
  ELSE <<[role |-> "system", content |-> omittedNote(Len(hist) - maxMessages)]>>
         \o SubSeq(hist, 1, maxMessages)

truncateHistory(hist, maxMessages) ==
  IF Len(hist) <= maxMessages
  THEN hist
  ELSE LET omitted == Len(hist) - maxMessages
           recent == slice(hist, -maxMessages)
       IN <<[role |-> "system", content |-> omittedNote(omitted)]>> \o recent

HistoryInit ==
  /\ CoreIdle
  /\ TightLimits
  /\ StreamIdle
  /\ DrainIdle
  /\ HandlersIdle /\ PartsIdle
  /\ history = <<>>
  /\ maxHistoryMessages \in 0..MaxKeep
  /\ conversationHistory = None

\* saveMessage(db, conversationId, role, content)
SaveMessage(role) ==
  /\ Len(history) < MaxHistory
  /\ history' = Append(history, [role |-> role, content |-> Content(Len(history) + 1)])
  /\ UNCHANGED <<maxHistoryMessages, conversationHistory>>

\* execute: getConversationHistory, then truncateHistory into the payload
BuildPayload ==
  /\ conversationHistory' = Some(truncateHistory(history, maxHistoryMessages))
  /\ UNCHANGED <<history, maxHistoryMessages>>

HistoryNext ==
  \/ \E role \in Roles : SaveMessage(role) /\ UNCHANGED nonHistory
  \/ BuildPayload /\ UNCHANGED nonHistory

SpecHistory == HistoryInit /\ [][HistoryNext]_vars


\* ============================================================ SpecBackend
\* One worker as a backend (ContainerManager / LocalRunner) sees it: the
\* worker writes lines to stderr, readline delivers them one 'line' event at
\* a time, and the child's 'close' event follows the end of its stdio.
IPC_PREFIX == <<"@", "f", "l", "o", "w", "m", "a", "t", "e", " ">>

\* ---- JavaScript values as JSON.parse builds them: a string is the sequence
\* of its characters, an object the sequence of its members in order
JUndefined == <<"undefined">>
JNull == <<"null">>
JBool(b) == <<"boolean", b>>
JNum(n) == <<"number", n>>
JStr(s) == <<"string", s>>
JArr(items) == <<"array", items>>
JObj(members) == <<"object", members>>

\* typeof
typeof(v) == IF v[1] \in {"null", "array"} THEN "object" ELSE v[1]

\* !!v
truthy(v) ==
  CASE v[1] \in {"undefined", "null"} -> FALSE
    [] v[1] = "boolean" -> v[2]
    [] v[1] = "number" -> v[2] # 0
    [] v[1] = "string" -> v[2] # <<>>
    [] OTHER -> TRUE

\* key in obj
has(obj, key) ==
  obj[1] = "object" /\ \E i \in 1..Len(obj[2]) : obj[2][i][1] = key

\* obj[key]
get(obj, key) ==
  IF has(obj, key)
  THEN obj[2][CHOOSE i \in 1..Len(obj[2]) : obj[2][i][1] = key][2]
  ELSE JUndefined

\* obj[key] = value while JSON.parse builds obj: a repeated key keeps its place
put(members, key, value) ==
  IF \E i \in 1..Len(members) : members[i][1] = key
  THEN [i \in 1..Len(members) |->
          IF members[i][1] = key THEN <<key, value>> ELSE members[i]]
  ELSE Append(members, <<key, value>>)

\* ---- JSON.stringify of such a value (numbers are integers)
Digit == <<"0", "1", "2", "3", "4", "5", "6", "7", "8", "9">>

RECURSIVE digits(_)
digits(n) == IF n < 10 THEN <<Digit[n + 1]>> ELSE digits(n \div 10) \o <<Digit[(n % 10) + 1]>>

numeral(n) == IF n < 0 THEN <<"-">> \o digits(-n) ELSE digits(n)

\* a variant that leaves the backslash as it is
escapeQuotesOnly(c) ==
  CASE c = "\"" -> <<"\\", "\"">>
    [] c = "\n" -> <<"\\", "n">>
    [] OTHER -> <<c>>

escape(c) ==
  CASE c = "\"" -> <<"\\", "\"">>
    [] c = "\\" -> <<"\\", "\\">>
    [] c = "\n" -> <<"\\", "n">>
    [] OTHER -> <<c>>

RECURSIVE quote(_)
quote(s) == IF s = <<>> THEN <<>> ELSE escape(Head(s)) \o quote(Tail(s))

RECURSIVE stringify(_)
RECURSIVE stringifyMembers(_)
RECURSIVE stringifyItems(_)
stringify(v) ==
  CASE v[1] = "null" -> <<"n", "u", "l", "l">>
    [] v[1] = "boolean" -> IF v[2] THEN <<"t", "r", "u", "e">> ELSE <<"f", "a", "l", "s", "e">>
    [] v[1] = "number" -> numeral(v[2])
    [] v[1] = "string" -> <<"\"">> \o quote(v[2]) \o <<"\"">>
    [] v[1] = "array" -> <<"[">> \o stringifyItems(v[2]) \o <<"]">>
    [] v[1] = "object" -> <<"{">> \o stringifyMembers(v[2]) \o <<"}">>

stringifyMembers(ms) ==
  IF ms = <<>> THEN <<>>
  ELSE <<"\"">> \o quote(ms[1][1]) \o <<"\"", ":">> \o stringify(ms[1][2])
         \o (IF Len(ms) > 1 THEN <<",">> \o stringifyMembers(Tail(ms)) ELSE <<>>)

stringifyItems(vs) ==
  IF vs = <<>> THEN <<>>
  ELSE stringify(vs[1])
         \o (IF Len(vs) > 1 THEN <<",">> \o stringifyItems(Tail(vs)) ELSE <<>>)

\* ---- JSON.parse: a parser returns what it read and the position after it
Whitespace == {" ", "\t", "\n", "\r"}
Failed == [ok |-> FALSE, value |-> JUndefined, next |-> 0]
Read(v, next) == [ok |-> TRUE, value |-> v, next |-> next]

RECURSIVE skip(_, _)
skip(t, i) == IF i <= Len(t) /\ t[i] \in Whitespace THEN skip(t, i + 1) ELSE i

\* the literal lit at position i
literal(t, i, lit) ==
  /\ i + Len(lit) - 1 <= Len(t)
  /\ SubSeq(t, i, i + Len(lit) - 1) = lit

DigitValue(c) == (CHOOSE k \in 1..10 : Digit[k] = c) - 1
IsDigit(c) == \E k \in 1..10 : Digit[k] = c

RECURSIVE parseDigits(_, _, _)
parseDigits(t, i, acc) ==
  IF i <= Len(t) /\ IsDigit(t[i])
  THEN parseDigits(t, i + 1, acc * 10 + DigitValue(t[i]))
  ELSE Read(acc, i)

\* -? (0 | [1-9][0-9]*)
parseNumber(t, i) ==
  LET neg == i <= Len(t) /\ t[i] = "-"
      j == IF neg THEN i + 1 ELSE i
  IN IF j > Len(t) \/ ~IsDigit(t[j]) THEN Failed
     ELSE LET r == IF t[j] = "0" THEN Read(0, j + 1) ELSE parseDigits(t, j, 0)
          IN Read(JNum(IF neg THEN -r.value ELSE r.value), r.next)

\* the characters of a string up to its closing quote; i is after the opening one
RECURSIVE parseString(_, _, _)
parseString(t, i, acc) ==
  IF i > Len(t) \/ t[i] = "\n" THEN Failed
  ELSE IF t[i] = "\"" THEN Read(acc, i + 1)
  ELSE IF t[i] = "\\"
       THEN IF i + 1 > Len(t) THEN Failed
            ELSE IF t[i + 1] \in {"\"", "\\"} THEN parseString(t, i + 2, Append(acc, t[i + 1]))
            ELSE IF t[i + 1] = "n" THEN parseString(t, i + 2, Append(acc, "\n"))
            ELSE Failed
  ELSE parseString(t, i + 1, Append(acc, t[i]))

RECURSIVE parseValue(_, _)
RECURSIVE parseMembers(_, _, _)
RECURSIVE parseItems(_, _, _)
parseValue(t, i0) ==
  LET i == skip(t, i0)
  IN IF i > Len(t) THEN Failed
     ELSE IF t[i] = "{"
          THEN IF skip(t, i + 1) <= Len(t) /\ t[skip(t, i + 1)] = "}"
               THEN Read(JObj(<<>>), skip(t, i + 1) + 1)
               ELSE parseMembers(t, i + 1, <<>>)
     ELSE IF t[i] = "["
          THEN IF skip(t, i + 1) <= Len(t) /\ t[skip(t, i + 1)] = "]"
               THEN Read(JArr(<<>>), skip(t, i + 1) + 1)
               ELSE parseItems(t, i + 1, <<>>)
     ELSE IF t[i] = "\""
          THEN LET s == parseString(t, i + 1, <<>>)
               IN IF s.ok THEN Read(JStr(s.value), s.next) ELSE Failed
     ELSE IF t[i] = "-" \/ IsDigit(t[i]) THEN parseNumber(t, i)
     ELSE IF literal(t, i, <<"n", "u", "l", "l">>) THEN Read(JNull, i + 4)
     ELSE IF literal(t, i, <<"t", "r", "u", "e">>) THEN Read(JBool(TRUE), i + 4)
     ELSE IF literal(t, i, <<"f", "a", "l", "s", "e">>) THEN Read(JBool(FALSE), i + 5)
     ELSE Failed

\* "key": value, then "," and more members or "}"
parseMembers(t, i0, acc) ==
  LET i == skip(t, i0)
  IN IF i > Len(t) \/ t[i] # "\"" THEN Failed
     ELSE LET k == parseString(t, i + 1, <<>>)
              c == skip(t, k.next)
          IN IF ~k.ok \/ c > Len(t) \/ t[c] # ":" THEN Failed
             ELSE LET v == parseValue(t, c + 1)
                      e == skip(t, v.next)
                  IN IF ~v.ok \/ e > Len(t) THEN Failed
                     ELSE IF t[e] = "," THEN parseMembers(t, e + 1, put(acc, k.value, v.value))
                     ELSE IF t[e] = "}" THEN Read(JObj(put(acc, k.value, v.value)), e + 1)
                     ELSE Failed

\* value, then "," and more items or "]"
parseItems(t, i0, acc) ==
  LET v == parseValue(t, i0)
      e == skip(t, v.next)
  IN IF ~v.ok \/ e > Len(t) THEN Failed
     ELSE IF t[e] = "," THEN parseItems(t, e + 1, Append(acc, v.value))
     ELSE IF t[e] = "]" THEN Read(JArr(Append(acc, v.value)), e + 1)
     ELSE Failed

\* JSON.parse(text): Some(value), or None when it throws
JSONparse(t) ==
  LET v == parseValue(t, 1)
  IN IF v.ok /\ skip(t, v.next) > Len(t) THEN Some(v.value) ELSE None

\* String.prototype.trim
RECURSIVE trimEnd(_)
trimEnd(s) ==
  IF s # <<>> /\ s[Len(s)] \in Whitespace THEN trimEnd(SubSeq(s, 1, Len(s) - 1)) ELSE s

trim(s) == trimEnd(SubSeq(s, skip(s, 1), Len(s)))

\* String.prototype.startsWith
startsWith(s, prefix) == literal(s, 1, prefix)

\* ---- shared/ipc.ts: the keys and type names of IpcMessage
KType == <<"t", "y", "p", "e">>
KText == <<"t", "e", "x", "t">>
KMessage == <<"m", "e", "s", "s", "a", "g", "e">>
KCostUsd == <<"c", "o", "s", "t", "U", "s", "d">>
KDurationMs == <<"d", "u", "r", "a", "t", "i", "o", "n", "M", "s">>
KTokensUsed == <<"t", "o", "k", "e", "n", "s", "U", "s", "e", "d">>
KNumTurns == <<"n", "u", "m", "T", "u", "r", "n", "s">>
KTimestamp == <<"t", "i", "m", "e", "s", "t", "a", "m", "p">>
TProgress == <<"p", "r", "o", "g", "r", "e", "s", "s">>
TResult == <<"r", "e", "s", "u", "l", "t">>
TError == <<"e", "r", "r", "o", "r">>

IPC_TYPES == {TProgress, TResult, TError}

\* a variant that tests the type of tokensUsed alone
isValidIpcMessageNullUsage(obj) ==
  IF ~truthy(obj) \/ typeof(obj) # "object" \/ ~has(obj, KType) THEN FALSE
  ELSE IF get(obj, KType)[1] # "string" \/ get(obj, KType)[2] \notin IPC_TYPES THEN FALSE
  ELSE IF get(obj, KType) = JStr(TProgress) THEN typeof(get(obj, KText)) = "string"
  ELSE IF typeof(get(obj, KCostUsd)) # "number" \/ typeof(get(obj, KDurationMs)) # "number"
       THEN FALSE
  ELSE IF typeof(get(obj, KTokensUsed)) # "object"
       THEN FALSE
  ELSE IF get(obj, KType) = JStr(TResult) THEN typeof(get(obj, KText)) = "string"
  ELSE typeof(get(obj, KMessage)) = "string"

isValidIpcMessage(obj) ==
  IF ~truthy(obj) \/ typeof(obj) # "object" \/ ~has(obj, KType) THEN FALSE
  ELSE IF get(obj, KType)[1] # "string" \/ get(obj, KType)[2] \notin IPC_TYPES THEN FALSE
  ELSE IF get(obj, KType) = JStr(TProgress) THEN typeof(get(obj, KText)) = "string"
  ELSE IF typeof(get(obj, KCostUsd)) # "number" \/ typeof(get(obj, KDurationMs)) # "number"
       THEN FALSE
  ELSE IF ~truthy(get(obj, KTokensUsed)) \/ typeof(get(obj, KTokensUsed)) # "object"
       THEN FALSE
  ELSE IF get(obj, KType) = JStr(TResult) THEN typeof(get(obj, KText)) = "string"
  ELSE typeof(get(obj, KMessage)) = "string"

\* parseIpcLine(line): Some(message), or None for null
parseIpcLine(line) ==
  LET trimmed == trim(line)
  IN IF trimmed = <<>> THEN None
     ELSE LET parsed == JSONparse(trimmed)
          IN IF parsed # None /\ isValidIpcMessage(parsed[1]) THEN parsed ELSE None

serializeIpc(msg) == stringify(msg)

\* ---- the messages the runner emits (runner/index.ts)
KInput == <<"i", "n", "p", "u", "t">>
KOutput == <<"o", "u", "t", "p", "u", "t">>
KCacheRead == <<"c", "a", "c", "h", "e", "R", "e", "a", "d">>
KCacheWrite == <<"c", "a", "c", "h", "e", "W", "r", "i", "t", "e">>

\* TokenUsage
TokenUsage(n) ==
  JObj(<< <<KInput, JNum(n)>>, <<KOutput, JNum(n)>>,
          <<KCacheRead, JNum(n)>>, <<KCacheWrite, JNum(n)>> >>)

\* IpcProgressMessage; the timestamp is the text of a number
IpcProgressMessage(txt, at) ==
  JObj(<< <<KType, JStr(TProgress)>>, <<KText, JStr(txt)>>,
          <<KTimestamp, JStr(numeral(at))>> >>)

\* IpcResultMessage
IpcResultMessage(txt, cost, n) ==
  JObj(<< <<KType, JStr(TResult)>>, <<KText, JStr(txt)>>, <<KCostUsd, JNum(cost)>>,
          <<KTokensUsed, TokenUsage(n)>>, <<KDurationMs, JNum(n)>>,
          <<KNumTurns, JNum(n)>> >>)

\* IpcErrorMessage
IpcErrorMessage(txt, cost, n) ==
  JObj(<< <<KType, JStr(TError)>>, <<KMessage, JStr(txt)>>, <<KCostUsd, JNum(cost)>>,
          <<KTokensUsed, TokenUsage(n)>>, <<KDurationMs, JNum(n)>>,
          <<KNumTurns, JNum(n)>> >>)

\* debug output of the worker: `[runner] ...`
DebugLine(n) == <<"[", "r", "u", "n", "n", "e", "r", "]", " ">> \o numeral(n)

\* the line of the n-th write: what the worker can put on stderr
Lines(n) ==
  {IPC_PREFIX \o serializeIpc(o) :
     o \in {IpcProgressMessage(numeral(n), n),
            IpcResultMessage(numeral(n), 1, n),
            IpcErrorMessage(numeral(n), 1, n),
            JObj(<< <<KType, JStr(TResult)>>, <<KText, JStr(numeral(n))>> >>),
            JObj(<< <<KType, JStr(<<"s", "t", "a", "t", "u", "s">>)>>, <<KText, JStr(numeral(n))>> >>)}}
  \cup {IPC_PREFIX \o DebugLine(n),
        DebugLine(n),
        serializeIpc(IpcProgressMessage(numeral(n), n))}

\* what the 'line' handler passes to callbacks.onMessage, if anything
Accepted(line) ==
  IF startsWith(line, IPC_PREFIX)
  THEN parseIpcLine(SubSeq(line, Len(IPC_PREFIX) + 1, Len(line)))
  ELSE None

BackendInit ==
  /\ CoreIdle
  /\ TightLimits
  /\ HistoryIdle
  /\ DrainIdle
  /\ HandlersIdle /\ PartsIdle
  /\ child = "running"
  /\ stderr = <<>>
  /\ emitted = <<>>
  /\ callbacks = <<>>

\* the worker writes one line
WorkerWrite(line) ==
  /\ child = "running"
  /\ Len(emitted) < MaxLines
  /\ stderr' = Append(stderr, line)
  /\ emitted' = Append(emitted, line)
  /\ UNCHANGED <<child, callbacks>>

\* the worker process ends; what it wrote may still be in the pipe
WorkerExit ==
  /\ child = "running"
  /\ child' = "exited"
  /\ UNCHANGED <<stderr, emitted, callbacks>>

\* a variant that stops reading at a prefixed line it cannot parse
OnLineGivesUp ==
  /\ stderr # <<>>
  /\ stderr' = IF startsWith(Head(stderr), IPC_PREFIX) /\ Accepted(Head(stderr)) = None
                THEN <<>>
                ELSE Tail(stderr)
  /\ callbacks' = IF Accepted(Head(stderr)) # None
                   THEN Append(callbacks, <<"onMessage", Accepted(Head(stderr))[1]>>)
                   ELSE callbacks
  /\ UNCHANGED <<child, emitted>>

\* rl.on("line"): onMessage for a valid prefixed message, a log line otherwise
OnLine ==
  /\ stderr # <<>>
  /\ stderr' = Tail(stderr)
  /\ callbacks' = IF Accepted(Head(stderr)) # None
                   THEN Append(callbacks, <<"onMessage", Accepted(Head(stderr))[1]>>)
                   ELSE callbacks
  /\ UNCHANGED <<child, emitted>>

\* a variant that listens to 'exit', which does not wait for the streams
OnCloseAtExit ==
  /\ child = "exited"
  /\ child' = "closed"
  /\ callbacks' = Append(callbacks, <<"onExit">>)
  /\ UNCHANGED <<stderr, emitted>>

\* child.on("close"): after the process ended and its stdio was read to the end
OnClose ==
  /\ child = "exited"
  /\ stderr = <<>>
  /\ child' = "closed"
  /\ callbacks' = Append(callbacks, <<"onExit">>)
  /\ UNCHANGED <<stderr, emitted>>

BackendNext ==
  \/ \E line \in Lines(Len(emitted) + 1) :
       WorkerWrite(line) /\ UNCHANGED nonStream
  \/ WorkerExit /\ UNCHANGED nonStream
  \/ OnLine /\ UNCHANGED nonStream
  \/ OnClose /\ UNCHANGED nonStream

SpecBackend == BackendInit /\ [][BackendNext]_vars


\* ============================================================== SpecDrain
\* The execution core during shutdown: drain(timeoutMs) is called once, at
\* any moment; execute calls and worker events go on until drain returns,
\* after which shutdown closes the database and exits the process.  The
\* daily limit leaves room for two executions at a time; a worker reports a
\* result at the full cap or an error from its catch block, and ends by a
\* signal.
RoomyLimits ==
  limits = [dailyBudgetLimit |-> 2 * PerTaskCap, maxBudgetPerTask |-> PerTaskCap]

DrainInit ==
  CoreIdle /\ RoomyLimits /\ HistoryIdle /\ StreamIdle /\ DrainIdle /\ HandlersIdle /\ PartsIdle

\* a variant that arms the deadline timer before looking at the registry
DrainArmsFirst ==
  /\ drainCall = "none"
  /\ drainTimer' = "armed"
  /\ IF activeExecutions = {}
     THEN drainCall' = "returned" /\ UNCHANGED drainPromise
     ELSE drainCall' = "waiting" /\ drainPromise' = activeExecutions
  /\ UNCHANGED <<drainKills, coreVars>>

\* drain(timeoutMs) up to its await: return at once on an empty registry,
\* else allSettled over the registry's promises raced against a timer
Drain ==
  /\ drainCall = "none"
  /\ IF activeExecutions = {}
     THEN drainCall' = "returned" /\ UNCHANGED <<drainPromise, drainTimer>>
     ELSE /\ drainCall' = "waiting"
          /\ drainPromise' = activeExecutions
          /\ drainTimer' = "armed"
  /\ UNCHANGED <<drainKills, coreVars>>

\* the reaction of drain to a step of the core: when that step settles the
\* last promise allSettled waits for, the race is won and drain returns
DrainFollow ==
  /\ drainCall # "returned"
  /\ drainCall' =
       IF /\ drainCall = "waiting"
          /\ \A e \in drainPromise : promise'[e].state \in {"resolved", "rejected"}
       THEN "returned" ELSE drainCall
  /\ UNCHANGED <<drainPromise, drainTimer, drainKills>>

\* a variant that asks for no kill at the deadline
drainTargetsNone(active, rids) == {}

\* for (const [id, entry] of this.activeExecutions) if (entry.runnerId) kill
drainTargets(active, rids) == {e \in active : rids[e] # None}

\* the deadline timer fires first: kill what is in the registry, return
DrainTimeout ==
  /\ drainCall = "waiting"
  /\ drainTimer = "armed"
  /\ drainTimer' = "fired"
  /\ drainKills' = drainTargets(activeExecutions, runnerId)
  /\ kills' = [e \in Execs |->
                 IF e \in drainTargets(activeExecutions, runnerId)
                 THEN "requested" ELSE kills[e]]
  /\ drainCall' = "returned"
  /\ UNCHANGED <<drainPromise, executions, trackerVars, lastBudget, resultReceived,
                 runnerId, timer, promise, activeExecutions, taskCap, worker,
                 lastCall, launchLog>>

DrainNext ==
  \/ Drain /\ UNCHANGED nonDrain
  \/ DrainTimeout /\ UNCHANGED nonDrain
  \/ ExecuteRejected /\ DrainFollow /\ UNCHANGED nonDrain
  \/ \E failAt \in {"history", "insert"} :
       ExecuteThrows(failAt) /\ DrainFollow /\ UNCHANGED nonDrain
  \/ ExecuteLaunched /\ DrainFollow /\ UNCHANGED nonDrain
  \/ ExecuteLaunchFailed /\ DrainFollow /\ UNCHANGED nonDrain
  \/ \E e \in Execs :
       OnResult(e, taskCap[e]) /\ DrainFollow /\ UNCHANGED nonDrain
  \/ \E e \in Execs :
       OnError(e, 0, "catch") /\ DrainFollow /\ UNCHANGED nonDrain
  \/ \E e \in Execs :
       /\ OnExit(e, [code |-> None, signal |-> Some("SIGTERM")])
       /\ DrainFollow
       /\ UNCHANGED nonDrain
  \/ \E e \in Execs : Timeout(e) /\ DrainFollow /\ UNCHANGED nonDrain
  \/ \E e \in Execs : KillComplete(e) /\ DrainFollow /\ UNCHANGED nonDrain

SpecDrain == DrainInit /\ [][DrainNext]_vars

\* the deadline timer is started by drain and never cleared, so it fires
SpecDrainLive == SpecDrain /\ WF_vars(DrainTimeout /\ UNCHANGED nonDrain)


\* =========================================================== SpecHandlers
\* The Slack message handler of registerHandlers, one instance per inbound
\* message, around the execution core.  A handler runs up to its next await
\* in one step.  Workers are followed up to the event that settles their
\* execution, which is all a handler observes of them: a result at the full
\* cap, an error from the worker's catch block, death by signal, or silence
\* until the timeout.  The day's budget is either roomy or used up.
NoBudget ==
  limits = [dailyBudgetLimit |-> 0, maxBudgetPerTask |-> PerTaskCap]

HandlerInit ==
  /\ CoreIdle
  /\ (RoomyLimits \/ NoBudget)
  /\ HistoryIdle /\ StreamIdle /\ DrainIdle /\ HandlersIdle /\ PartsIdle

\* the next message to arrive
Arriving(m) ==
  /\ handlers[m].pc = "idle"
  /\ \A o \in Msgs : handlers[o].pc = "idle" => m <= o

\* a variant that stores the user message before it looks at the lock
PleaseWaitAfterSave(m, t) ==
  /\ Arriving(m)
  /\ t \in threadLocks
  /\ handlers' = [handlers EXCEPT ![m] = [NoHandler EXCEPT !.pc = "waited",
                                                         !.threadKey = t]]
  /\ messages' = [messages EXCEPT ![t] =
                    Append(@, [role |-> "user", content |-> <<"prompt", m>>])]
  /\ posted' = [posted EXCEPT ![m] = @ \cup {"please_wait"}]
  /\ UNCHANGED <<threadLocks, coreVars>>

\* threadLocks.has(threadKey): post the please-wait notice and return
PleaseWait(m, t) ==
  /\ Arriving(m)
  /\ t \in threadLocks
  /\ handlers' = [handlers EXCEPT ![m] = [NoHandler EXCEPT !.pc = "waited",
                                                         !.threadKey = t]]
  /\ posted' = [posted EXCEPT ![m] = @ \cup {"please_wait"}]
  /\ UNCHANGED <<threadLocks, messages, coreVars>>

\* lock not held: getOrCreateConversation, saveMessage(user), then the awaits
\* before the lock is taken (image download, warning post, setStatus)
Receive(m, t) ==
  /\ Arriving(m)
  /\ t \notin threadLocks
  /\ handlers' = [handlers EXCEPT ![m] = [NoHandler EXCEPT !.pc = "preparing",
                                                         !.threadKey = t]]
  /\ messages' = [messages EXCEPT ![t] =
                    Append(@, [role |-> "user", content |-> <<"prompt", m>>])]
  /\ UNCHANGED <<threadLocks, posted, coreVars>>

\* one of those awaits rejects (Slack API error): the handler throws before
\* its try block
PrepareFails(m) ==
  /\ handlers[m].pc = "preparing"
  /\ handlers' = [handlers EXCEPT ![m].pc = "threw"]
  /\ UNCHANGED <<threadLocks, messages, posted, coreVars>>

\* the awaits are over: threadLocks.add(threadKey), then the call of execute,
\* which either throws (the catch block starts and awaits setStatus) or
\* returns the execution's promise (the handler awaits it)
CallExecute(m, outcome) ==
  /\ handlers[m].pc = "preparing"
  /\ threadLocks' = threadLocks \cup {handlers[m].threadKey}
  /\ \/ /\ outcome = "budget"
        /\ ExecuteRejected
        /\ handlers' = [handlers EXCEPT ![m].pc = "failing",
                           ![m].error = Some(Text("Daily budget exceeded"))]
     \/ /\ outcome = "throws"
        /\ \E failAt \in {"history", "insert"} : ExecuteThrows(failAt)
        /\ handlers' = [handlers EXCEPT ![m].pc = "failing",
                           ![m].error = Some(Text("database error"))]
     \/ /\ outcome = "launched"
        /\ ExecuteLaunched
        /\ handlers' = [handlers EXCEPT ![m].pc = "executing",
                           ![m].execution = Some(NextId)]
     \/ /\ outcome = "launch failed"
        /\ ExecuteLaunchFailed
        /\ handlers' = [handlers EXCEPT ![m].pc = "executing",
                           ![m].execution = Some(NextId)]
  /\ UNCHANGED <<messages, posted>>

\* execute resolved: setStatus(""), postMessage(result), filesUploadV2,
\* setTitle, saveMessage(assistant), finally threadLocks.delete; a rejected
\* Slack call on the way enters the catch block
Reply(m, failAt) ==
  LET h == handlers[m]
      e == h.execution[1]
  IN /\ h.pc = "executing"
     /\ promise[e].state = "resolved"
     /\ \/ /\ failAt = "none"
           /\ posted' = [posted EXCEPT ![m] = @ \cup {"result"}]
           /\ messages' = [messages EXCEPT ![h.threadKey] =
                 Append(@, [role |-> "assistant", content |-> promise[e].value[1]])]
           /\ threadLocks' = threadLocks \ {h.threadKey}
           /\ handlers' = [handlers EXCEPT ![m].pc = "done"]
        \/ /\ failAt = "post"
           /\ handlers' = [handlers EXCEPT ![m].pc = "failing",
                              ![m].error = Some(Text("slack error"))]
           /\ UNCHANGED <<posted, messages, threadLocks>>
        \/ /\ failAt = "upload"
           /\ posted' = [posted EXCEPT ![m] = @ \cup {"result"}]
           /\ handlers' = [handlers EXCEPT ![m].pc = "failing",
                              ![m].error = Some(Text("slack error"))]
           /\ UNCHANGED <<messages, threadLocks>>
     /\ UNCHANGED coreVars

\* a variant without the finally: the lock is deleted at the end of the catch
\* block, which a rejected post does not reach
FailDeletesAfterPost(m, ok) ==
  LET h == handlers[m]
      err == IF h.pc = "failing" THEN h.error[1] ELSE promise[h.execution[1]].value
  IN /\ \/ h.pc = "failing"
        \/ h.pc = "executing" /\ promise[h.execution[1]].state = "rejected"
     /\ IF ok
        THEN /\ posted' = [posted EXCEPT ![m] = @ \cup {"error"}]
             /\ messages' = [messages EXCEPT ![h.threadKey] =
                   Append(@, [role |-> "assistant", content |-> <<"Error: ", err>>])]
             /\ handlers' = [handlers EXCEPT ![m].pc = "done"]
             /\ threadLocks' = threadLocks \ {h.threadKey}
        ELSE /\ handlers' = [handlers EXCEPT ![m].pc = "threw"]
             /\ UNCHANGED <<posted, messages, threadLocks>>
     /\ UNCHANGED coreVars

\* catch block: setStatus("").catch, postMessage(error), saveMessage(assistant,
\* `Error: ${errorMsg}`), finally threadLocks.delete; when the post rejects
\* the handler throws from the catch block and only the finally runs
Fail(m, ok) ==
  LET h == handlers[m]
      err == IF h.pc = "failing" THEN h.error[1] ELSE promise[h.execution[1]].value
  IN /\ \/ h.pc = "failing"
        \/ h.pc = "executing" /\ promise[h.execution[1]].state = "rejected"
     /\ IF ok
        THEN /\ posted' = [posted EXCEPT ![m] = @ \cup {"error"}]
             /\ messages' = [messages EXCEPT ![h.threadKey] =
                   Append(@, [role |-> "assistant", content |-> <<"Error: ", err>>])]
             /\ handlers' = [handlers EXCEPT ![m].pc = "done"]
        ELSE /\ handlers' = [handlers EXCEPT ![m].pc = "threw"]
             /\ UNCHANGED <<posted, messages>>
     /\ threadLocks' = threadLocks \ {h.threadKey}
     /\ UNCHANGED coreVars

\* an event of the core on an execution that is not settled yet
Pending(e) == promise[e].state = "pending"

HandlerNext ==
  \/ \E m \in Msgs : \E t \in ThreadKeys : Receive(m, t) /\ UNCHANGED nonHandler
  \/ \E m \in Msgs : \E t \in ThreadKeys : PleaseWait(m, t) /\ UNCHANGED nonHandler
  \/ \E m \in Msgs : PrepareFails(m) /\ UNCHANGED nonHandler
  \/ \E m \in Msgs : \E outcome \in {"budget", "throws", "launched", "launch failed"} :
       CallExecute(m, outcome) /\ UNCHANGED nonHandler
  \/ \E m \in Msgs : \E failAt \in {"none", "post", "upload"} :
       Reply(m, failAt) /\ UNCHANGED nonHandler
  \/ \E m \in Msgs : \E ok \in BOOLEAN : Fail(m, ok) /\ UNCHANGED nonHandler
  \/ \E e \in Execs :
       Pending(e) /\ OnResult(e, taskCap[e]) /\ UNCHANGED <<handlerVars, nonHandler>>
  \/ \E e \in Execs :
       Pending(e) /\ OnError(e, 0, "catch") /\ UNCHANGED <<handlerVars, nonHandler>>
  \/ \E e \in Execs :
       /\ Pending(e)
       /\ OnExit(e, [code |-> None, signal |-> Some("SIGTERM")])
       /\ UNCHANGED <<handlerVars, nonHandler>>
  \/ \E e \in Execs : Pending(e) /\ Timeout(e) /\ UNCHANGED <<handlerVars, nonHandler>>

SpecHandlers == HandlerInit /\ [][HandlerNext]_vars

\* the handlers of the messages of one thread
OneThread == "D1:100.1"

LockNext ==
  \/ \E m \in Msgs : Receive(m, OneThread) /\ UNCHANGED nonHandler
  \/ \E m \in Msgs : PleaseWait(m, OneThread) /\ UNCHANGED nonHandler
  \/ \E m \in Msgs : PrepareFails(m) /\ UNCHANGED nonHandler
  \/ \E m \in Msgs : \E outcome \in {"budget", "throws", "launched", "launch failed"} :
       CallExecute(m, outcome) /\ UNCHANGED nonHandler
  \/ \E m \in Msgs : \E failAt \in {"none", "post", "upload"} :
       Reply(m, failAt) /\ UNCHANGED nonHandler
  \/ \E m \in Msgs : \E ok \in BOOLEAN : Fail(m, ok) /\ UNCHANGED nonHandler
  \/ \E e \in Execs :
       Pending(e) /\ OnResult(e, taskCap[e]) /\ UNCHANGED <<handlerVars, nonHandler>>
  \/ \E e \in Execs :
       Pending(e) /\ OnError(e, 0, "catch") /\ UNCHANGED <<handlerVars, nonHandler>>
  \/ \E e \in Execs :
       /\ Pending(e)
       /\ OnExit(e, [code |-> None, signal |-> Some("SIGTERM")])
       /\ UNCHANGED <<handlerVars, nonHandler>>
  \/ \E e \in Execs : Pending(e) /\ Timeout(e) /\ UNCHANGED <<handlerVars, nonHandler>>

SpecLock == HandlerInit /\ [][LockNext]_vars

\* a callback that is ready to run: the timeout timer of an unsettled
\* execution, or the continuation of a handler whose awaited promise (of
\* execute or of a Slack call) has settled
LockReady ==
  \/ \E e \in Execs : Pending(e) /\ Timeout(e) /\ UNCHANGED <<handlerVars, nonHandler>>
  \/ \E m \in Msgs : \E failAt \in {"none", "post", "upload"} :
       Reply(m, failAt) /\ UNCHANGED nonHandler
  \/ \E m \in Msgs : \E ok \in BOOLEAN : Fail(m, ok) /\ UNCHANGED nonHandler

\* the same program with what the runtime and the Slack client give: an
\* awaited Slack call settles, and the event loop does not leave callbacks
\* that are ready to run waiting forever
SpecLockLive == SpecLock /\ WF_vars(LockReady)


\* ================================================================ SpecIpc
\* One line on a worker's stderr, from the value written to what the 'line'
\* handler makes of it.
MaxTextLen == 2

\* characters of a message text: plain, and those JSON.stringify escapes or
\* trim removes
Chars == {"a", " ", "\"", "\\", "\n"}

RECURSIVE Texts(_)
Texts(n) ==
  IF n = 0 THEN {<<>>}
  ELSE Texts(n - 1) \cup {Append(t, c) : t \in Texts(n - 1), c \in Chars}

CostArgs == {0, 12}

\* the values of type IpcMessage the runner can pass to emit
IpcMessages ==
  {IpcProgressMessage(t, 7) : t \in Texts(MaxTextLen)}
  \cup {IpcResultMessage(t, c, 3) : t \in Texts(MaxTextLen), c \in CostArgs}
  \cup {IpcErrorMessage(t, c, 3) : t \in Texts(MaxTextLen), c \in CostArgs}

\* other objects: each member absent (undefined) or of some type
TypeArgs == {JUndefined, JNull, JNum(1), JStr(TProgress), JStr(TResult), JStr(TError),
             JStr(KText)}
StringArgs == {JUndefined, JNull, JNum(0), JStr(<<>>)}
NumberArgs == {JUndefined, JNull, JNum(0), JStr(<<"0">>), JObj(<<>>)}
ObjectArgs == {JUndefined, JNull, JNum(1), JStr(<<"a">>), JObj(<<>>), JArr(<<>>)}

JsonObjects ==
  {JObj(SelectSeq(<< <<KType, ty>>, <<KText, tx>>, <<KMessage, ms>>, <<KCostUsd, co>>,
                     <<KTokensUsed, tk>>, <<KDurationMs, du>> >>,
                  LAMBDA m : m[2][1] # "undefined")) :
     ty \in TypeArgs, tx \in StringArgs, ms \in StringArgs, co \in NumberArgs,
     tk \in ObjectArgs, du \in NumberArgs}

\* lines that are no JSON object: blank, JSON of another kind, broken JSON,
\* and the worker's debug output
TextLines ==
  {<<>>, <<" ", " ">>, <<"4", "2">>, <<"n", "u", "l", "l">>, <<"\"", "a", "\"">>,
   <<"[", "]">>, <<"[", "1", ",", "2", "]">>, <<"{">>, <<"{", "\"", "a", "\"", ":", "}">>,
   <<"{", "}", "x">>, DebugLine(1)}

IpcInit == BackendInit

\* emit(msg): process.stderr.write(IPC_PREFIX + serializeIpc(msg) + "\n")
Emit(msg) ==
  /\ WorkerWrite(IPC_PREFIX \o serializeIpc(msg))
  /\ written' = Some(msg)

\* any other write of one line to stderr: some prefix, then the JSON text of
\* an object, then possibly blanks
WriteJson(prefix, obj, blanks) ==
  /\ WorkerWrite(prefix \o stringify(obj) \o blanks)
  /\ written' = Some(obj)

\* ... or a line that is no JSON object
WriteText(prefix, line) ==
  /\ WorkerWrite(prefix \o line)
  /\ written' = None

\* what may stand where the prefix should: nothing, the prefix without its
\* blank, the prefix after a blank, the prefix in capitals
NearPrefixes ==
  {<<>>, SubSeq(IPC_PREFIX, 1, Len(IPC_PREFIX) - 1), <<" ">> \o IPC_PREFIX,
   <<"@", "F", "l", "o", "w", "m", "a", "t", "e", " ">>}

\* one line is followed from the write to its 'line' event
IpcNext ==
  \/ /\ emitted = <<>>
     /\ \E msg \in IpcMessages : Emit(msg) /\ UNCHANGED nonIpc
  \/ /\ emitted = <<>>
     /\ \E obj \in JsonObjects : WriteJson(IPC_PREFIX, obj, <<>>) /\ UNCHANGED nonIpc
  \/ /\ emitted = <<>>
     /\ \E prefix \in {IPC_PREFIX} \cup NearPrefixes, msg \in IpcMessages :
          WriteJson(prefix, msg, <<" ">>) /\ UNCHANGED nonIpc
  \/ /\ emitted = <<>>
     /\ \E prefix \in {IPC_PREFIX} \cup NearPrefixes, line \in TextLines :
          WriteText(prefix, line) /\ UNCHANGED nonIpc
  \/ OnLine /\ UNCHANGED nonStream

SpecIpc == IpcInit /\ [][IpcNext]_vars

\* ============================================================ SpecProgress
\* The progress branch of the onMessage callback of execute, with the clock
\* it reads.
MaxTicks == 4
MaxProgress == 3

\* how far the clock moves between two events, in ms
TickArgs == {1000, 1999}

ClockEnd == ClockStart + MaxTicks * 1000

ProgressInit ==
  CoreIdle /\ RoomyLimits /\ HistoryIdle /\ StreamIdle /\ DrainIdle /\ HandlersIdle /\ PartsIdle

\* time passes
Tick(d) ==
  /\ now + d <= ClockEnd
  /\ now' = now + d
  /\ UNCHANGED <<lastProgressTime, arrived, onProgress>>

\* a variant in which a dropped message restarts the window
OnProgressRestartsWindow(e) ==
  LET msg == [execution |-> e, text |-> Content(Len(arrived) + 1), at |-> now]
  IN /\ worker[e] = "alive"
     /\ Len(arrived) < MaxProgress
     /\ arrived' = Append(arrived, msg)
     /\ lastProgressTime' = [lastProgressTime EXCEPT ![e] = now]
     /\ IF now - lastProgressTime[e] >= PROGRESS_DEBOUNCE_MS
        THEN onProgress' = Append(onProgress, msg)
        ELSE UNCHANGED onProgress
     /\ UNCHANGED now

\* onMessage with a progress message, the caller having passed onProgress
OnProgress(e) ==
  LET msg == [execution |-> e, text |-> Content(Len(arrived) + 1), at |-> now]
  IN /\ worker[e] = "alive"
     /\ Len(arrived) < MaxProgress
     /\ arrived' = Append(arrived, msg)
     /\ IF now - lastProgressTime[e] >= PROGRESS_DEBOUNCE_MS
        THEN /\ lastProgressTime' = [lastProgressTime EXCEPT ![e] = now]
             /\ onProgress' = Append(onProgress, msg)
        ELSE UNCHANGED <<lastProgressTime, onProgress>>
     /\ UNCHANGED now

ProgressNext ==
  \/ ExecuteLaunched /\ UNCHANGED nonCore
  \/ \E e \in Execs : OnResult(e, taskCap[e]) /\ UNCHANGED nonCore
  \/ \E d \in TickArgs : Tick(d) /\ UNCHANGED <<coreVars, nonProgress>>
  \/ \E e \in Execs : OnProgress(e) /\ UNCHANGED <<coreVars, nonProgress>>

SpecProgress == ProgressInit /\ [][ProgressNext]_vars

\* the same callback while executions also end by their timeout, the clock
\* moving a whole debounce window at a time
ProgressLateNext ==
  \/ ExecuteLaunched /\ UNCHANGED nonCore
  \/ \E e \in Execs : OnResult(e, taskCap[e]) /\ UNCHANGED nonCore
  \/ \E e \in Execs : Timeout(e) /\ UNCHANGED nonCore
  \/ Tick(PROGRESS_DEBOUNCE_MS) /\ UNCHANGED <<coreVars, nonProgress>>
  \/ \E e \in Execs : OnProgress(e) /\ UNCHANGED <<coreVars, nonProgress>>

SpecProgressLate == ProgressInit /\ [][ProgressLateNext]_vars

\* =============================================================== SpecPipe
\* One execution with its worker's stderr: execute launches the worker, the
\* worker writes lines, and each 'line' event that carries a message runs the
\* onMessage callback of execute; the 'close' event runs onExit.

\* what the worker can write as its n-th line: messages (cost up to the cap
\* it was given), prefixed lines that are no message, and debug output
PipeLines(n) ==
  {IPC_PREFIX \o serializeIpc(o) :
     o \in {IpcProgressMessage(numeral(n), n),
            IpcResultMessage(numeral(n), taskCap[1], n),
            IpcErrorMessage(numeral(n), taskCap[1], n),
            JObj(<< <<KType, JStr(TResult)>>, <<KText, JStr(numeral(n))>> >>)}}
  \cup {IPC_PREFIX \o DebugLine(n), DebugLine(n)}

\* the line carries the result or error message of the query
Outcome(line) ==
  /\ Accepted(line) # None
  /\ get(Accepted(line)[1], KType)[2] \in {TResult, TError}

\* execute, with the child that runner.run spawns
PipeLaunch ==
  /\ child = "none"
  /\ ExecuteLaunched
  /\ child' = "running"
  /\ UNCHANGED <<stderr, emitted, callbacks>>

\* the worker writes a line; main() emits progress until the one outcome of
\* the query, and debug output at any time
PipeWrite(line) ==
  /\ (Accepted(line) # None => \A i \in 1..Len(emitted) : ~Outcome(emitted[i]))
  /\ WorkerWrite(line)

\* rl.on("line") and, for a message, the onMessage callback of execute
PipeLine ==
  LET acc == Accepted(Head(stderr))
      ty == get(acc[1], KType)[2]
      cost == get(acc[1], KCostUsd)[2]
  IN /\ stderr # <<>>
     /\ OnLine
     /\ IF acc = None THEN UNCHANGED <<coreVars, progressVars>>
        ELSE IF ty = TProgress THEN OnProgress(1) /\ UNCHANGED coreVars
        ELSE IF ty = TResult THEN OnResult(1, cost) /\ UNCHANGED progressVars
        ELSE OnError(1, cost, "sdk") /\ UNCHANGED progressVars

\* child.on("close") and the onExit callback of execute
PipeClose(st) ==
  /\ OnClose
  /\ OnExit(1, st)

PipeNext ==
  \/ PipeLaunch /\ UNCHANGED <<progressVars, nonPipe>>
  \/ \E line \in PipeLines(Len(emitted) + 1) :
       PipeWrite(line) /\ UNCHANGED <<coreVars, progressVars, nonPipe>>
  \/ WorkerExit /\ UNCHANGED <<coreVars, progressVars, nonPipe>>
  \/ PipeLine /\ UNCHANGED nonPipe
  \/ \E st \in ExitStatuses : PipeClose(st) /\ UNCHANGED <<progressVars, nonPipe>>
  \/ Timeout(1) /\ UNCHANGED <<streamVars, progressVars, nonPipe>>

SpecPipe == Init /\ [][PipeNext]_vars

\* =============================================================== SpecKill
\* LocalRunner: the processes it spawned and the calls of kill.

\* run(): spawn and processes.set(processId, child)
Run(id) ==
  /\ proc[id].state = "none"
  /\ proc' = [proc EXCEPT ![id].state = "running"]
  /\ processes' = processes \cup {id}
  /\ UNCHANGED <<signals, killCalls>>

\* ChildProcess.kill(signal): a signal goes to the process while the child
\* has its handle, which it gives up before 'exit' is emitted
childKill(id, sig) ==
  IF proc[id].state = "running" THEN Append(signals[id], sig) ELSE signals[id]

\* how a process can end: by itself with a code, or by a signal sent to it
Exits(id) ==
  {[exitCode |-> Some(c), signalCode |-> None] : c \in {0, 1}}
  \cup {[exitCode |-> None, signalCode |-> Some(sig)] :
          sig \in {signals[id][i] : i \in 1..Len(signals[id])}}

\* the 'exit' event of a child, with the once("exit") listeners of the kill
\* calls waiting for it: clearTimeout(forceKill); resolve()
ChildExit(id, how) ==
  /\ proc[id].state = "running"
  /\ how \in Exits(id)
  /\ proc' = [proc EXCEPT ![id] = [state |-> "exited", exitCode |-> how.exitCode,
                                   signalCode |-> how.signalCode]]
  /\ killCalls' = [k \in Kills |->
        IF killCalls[k].state = "waiting" /\ killCalls[k].containerId = Some(id)
        THEN [killCalls[k] EXCEPT !.state = "returned",
                                  !.forceKill = clearTimeout(@)]
        ELSE killCalls[k]]
  /\ UNCHANGED <<processes, signals>>

\* the 'close' event of a child: processes.delete(processId)
ChildClose(id) ==
  /\ proc[id].state = "exited"
  /\ proc' = [proc EXCEPT ![id].state = "closed"]
  /\ processes' = processes \ {id}
  /\ UNCHANGED <<signals, killCalls>>

\* a variant that forces at once
KillForcesAtOnce(k, id) ==
  /\ killCalls[k].state = "none"
  /\ IF id \notin processes \/ proc[id].exitCode # None
     THEN /\ killCalls' = [killCalls EXCEPT ![k] =
                 [state |-> "returned", containerId |-> Some(id), forceKill |-> "none"]]
          /\ UNCHANGED signals
     ELSE /\ signals' = [signals EXCEPT ![id] = childKill(id, "SIGKILL")]
          /\ killCalls' = [killCalls EXCEPT ![k] =
                 [state |-> "waiting", containerId |-> Some(id), forceKill |-> "armed"]]
  /\ UNCHANGED <<processes, proc>>

\* kill(containerId) up to its await
Kill(k, id) ==
  /\ killCalls[k].state = "none"
  /\ IF id \notin processes \/ proc[id].exitCode # None
     THEN /\ killCalls' = [killCalls EXCEPT ![k] =
                 [state |-> "returned", containerId |-> Some(id), forceKill |-> "none"]]
          /\ UNCHANGED signals
     ELSE /\ signals' = [signals EXCEPT ![id] = childKill(id, "SIGTERM")]
          /\ killCalls' = [killCalls EXCEPT ![k] =
                 [state |-> "waiting", containerId |-> Some(id), forceKill |-> "armed"]]
  /\ UNCHANGED <<processes, proc>>

\* the forceKill timer of a kill call fires after KILL_GRACE_MS
GraceExpires(k) ==
  LET id == killCalls[k].containerId[1]
  IN /\ killCalls[k].forceKill = "armed"
     /\ signals' = IF proc[id].exitCode = None
                   THEN [signals EXCEPT ![id] = childKill(id, "SIGKILL")]
                   ELSE signals
     /\ killCalls' = [killCalls EXCEPT ![k].forceKill = "fired", ![k].state = "returned"]
     /\ UNCHANGED <<processes, proc>>

KillNext ==
  \/ \E id \in Procs : Run(id) /\ UNCHANGED nonKill
  \/ \E id \in Procs : \E how \in Exits(id) : ChildExit(id, how) /\ UNCHANGED nonKill
  \/ \E id \in Procs : ChildClose(id) /\ UNCHANGED nonKill
  \/ \E k \in Kills, id \in Procs : Kill(k, id) /\ UNCHANGED nonKill
  \/ \E k \in Kills : GraceExpires(k) /\ UNCHANGED nonKill

SpecKill == Init /\ [][KillNext]_vars

\* a timer that is armed fires
SpecKillLive == SpecKill /\ \A k \in Kills : WF_vars(GraceExpires(k) /\ UNCHANGED nonKill)

\* ================================================================ SpecCli
\* dev-cli: runPrompt, one prompt after the other, around execute.
MaxPrompts == 3

Prompts == Len(SelectSeq(cliMessages, LAMBDA msg : msg.role = "user"))

CliInit ==
  /\ CoreIdle
  /\ (RoomyLimits \/ NoBudget)
  /\ HistoryIdle /\ StreamIdle /\ DrainIdle /\ HandlersIdle /\ PartsIdle

\* catch block of runPrompt: console.error(`\n--- error ---\n${msg}\n`)
CliCatch(err) ==
  /\ console' = Append(console, <<"--- error ---", err>>)
  /\ cli' = [cli EXCEPT !.pc = "done", !.error = Some(err)]

\* runPrompt: saveMessage(user), then the call of execute; a call that throws,
\* or whose launch fails, has rejected by the end of the step and the catch
\* block has run
RunPrompt(outcome) ==
  /\ cli.pc \in {"idle", "done"}
  /\ Prompts < MaxPrompts
  /\ cliMessages' = Append(cliMessages,
                           [role |-> "user", content |-> <<"prompt", Prompts + 1>>])
  /\ \/ /\ outcome = "budget"
        /\ ExecuteRejected
        /\ console' = Append(console, <<"--- error ---", Text("Daily budget exceeded")>>)
        /\ cli' = [pc |-> "done", execution |-> None,
                   error |-> Some(Text("Daily budget exceeded"))]
     \/ /\ outcome = "throws"
        /\ \E failAt \in {"history", "insert"} : ExecuteThrows(failAt)
        /\ console' = Append(console, <<"--- error ---", Text("database error")>>)
        /\ cli' = [pc |-> "done", execution |-> None,
                   error |-> Some(Text("database error"))]
     \/ /\ outcome = "launched"
        /\ ExecuteLaunched
        /\ cli' = [pc |-> "executing", execution |-> Some(NextId), error |-> None]
        /\ UNCHANGED console
     \/ /\ outcome = "launch failed"
        /\ ExecuteLaunchFailed
        /\ console' = Append(console, <<"--- error ---", LaunchError>>)
        /\ cli' = [pc |-> "done", execution |-> Some(NextId), error |-> Some(LaunchError)]

\* the await of execute is over: the result is printed and saved as an
\* assistant message, or the catch block prints the error
CliSettled ==
  LET e == cli.execution[1]
  IN /\ cli.pc = "executing"
     /\ promise[e].state \in {"resolved", "rejected"}
     /\ IF promise[e].state = "resolved"
        THEN /\ console' = Append(console, <<"--- result ---", promise[e].value[1]>>)
             /\ cliMessages' = Append(cliMessages,
                   [role |-> "assistant", content |-> promise[e].value[1]])
             /\ cli' = [cli EXCEPT !.pc = "done"]
        ELSE /\ CliCatch(promise[e].value)
             /\ UNCHANGED cliMessages
     /\ UNCHANGED coreVars

CliNext ==
  \/ \E outcome \in {"budget", "throws", "launched", "launch failed"} :
       RunPrompt(outcome) /\ UNCHANGED nonCli
  \/ CliSettled /\ UNCHANGED nonCli
  \/ \E e \in Execs : \E cost \in WorkerCosts(e) :
       Pending(e) /\ OnResult(e, cost) /\ UNCHANGED <<cliVars, nonCli>>
  \/ \E e \in Execs : \E path \in {"sdk", "catch"} :
       Pending(e) /\ OnError(e, 0, path) /\ UNCHANGED <<cliVars, nonCli>>
  \/ \E e \in Execs : \E st \in ExitStatuses :
       Pending(e) /\ OnExit(e, st) /\ UNCHANGED <<cliVars, nonCli>>
  \/ \E e \in Execs : Pending(e) /\ Timeout(e) /\ UNCHANGED <<cliVars, nonCli>>

SpecCli == CliInit /\ [][CliNext]_vars

\* ============================================================== SpecDaily
\* CostTracker.getDailyCost(date) over rows with their start instants.
\* Instants are hours since the start of day 0, UTC; a date is a day number.
MaxDay == 2
MaxStarted == 2

Days == 1..MaxDay

\* the day on which America/New_York puts its clocks forward, at 07:00 UTC
SpringForward == 24 * 2 + 7

Zones == {"UTC", "Asia/Seoul", "America/New_York"}

\* the offset from UTC of local time in tz at instant t
utcOffset(tz, t) ==
  CASE tz = "UTC" -> 0
    [] tz = "Asia/Seoul" -> 9
    [] tz = "America/New_York" -> IF t < SpringForward THEN -5 ELSE -4

\* new Date(ref.toLocaleString("en-US", {timeZone: tz})).getTime(): the wall
\* clock of tz at instant t, read back as an instant
wallClock(tz, t) == t + utcOffset(tz, t)

\* toUtcEpoch(localDateStr) of dateRangeInTz
toUtcEpoch(day, tz) ==
  LET ref == 24 * day + 12
      offsetMs == wallClock("UTC", ref) - wallClock(tz, ref)
  IN 24 * day - offsetMs

dateRangeInTz(day, tz) == [start |-> toUtcEpoch(day, tz), end |-> toUtcEpoch(day + 1, tz)]

RECURSIVE SumStarted(_, _)
SumStarted(rows, range) ==
  IF rows = <<>> THEN 0
  ELSE (IF Head(rows).startedAt >= range.start /\ Head(rows).startedAt < range.end
        THEN Coalesce(Head(rows).costUsd) ELSE 0)
       + SumStarted(Tail(rows), range)

\* getDailyCost(date): COALESCE(SUM(costUsd), 0) WHERE startedAt >= start AND
\* startedAt < end
dailyCost(rows, day, tz) == SumStarted(rows, dateRangeInTz(day, tz))

\* start instants of rows: every third hour from day 0 to the end of the
\* day after the last date
StartArgs == {3 * h : h \in 0..(8 * (MaxDay + 2))}

DailyInit ==
  /\ CoreIdle /\ TightLimits
  /\ HistoryIdle /\ StreamIdle /\ DrainIdle /\ HandlersIdle
  /\ ProgressIdle /\ written = None /\ KillIdle /\ CliIdle /\ ShutdownIdle
  /\ timezone \in Zones
  /\ started = <<>>
  /\ lastDaily = None

\* execute inserts a row (startedAt) and a terminal update records its cost
InsertStarted(at, cost) ==
  /\ Len(started) < MaxStarted
  /\ started' = Append(started, [startedAt |-> at, costUsd |-> cost])
  /\ UNCHANGED <<timezone, lastDaily>>

GetDailyCost(day) ==
  /\ lastDaily' = Some([date |-> day, total |-> dailyCost(started, day, timezone)])
  /\ UNCHANGED <<timezone, started>>

DailyNext ==
  \/ \E at \in StartArgs, cost \in {None, Some(1), Some(2)} :
       InsertStarted(at, cost) /\ UNCHANGED nonDaily
  \/ \E day \in Days : GetDailyCost(day) /\ UNCHANGED nonDaily

SpecDaily == DailyInit /\ [][DailyNext]_vars

\* ============================================================= SpecBudget
\* The core under several configurations of config.limits, so that
\* executions are admitted next to recorded costs and next to reservations.
LimitArgs ==
  {[dailyBudgetLimit |-> d, maxBudgetPerTask |-> c] :
     d \in {DailyLimit}, c \in {PerTaskCap - 1, PerTaskCap}}

BudgetInit ==
  /\ CoreIdle
  /\ limits \in LimitArgs
  /\ HistoryIdle /\ StreamIdle /\ DrainIdle /\ HandlersIdle /\ PartsIdle

SpecBudget == BudgetInit /\ [][Next]_vars

\* =========================================================== SpecShutdown
\* main's signal handlers and shutdown around the core and drain: signals
\* arrive at any moment, executions go on until the process exits.
MaxSignals == 3

ShutdownInit == DrainInit

\* sqlite.close(); process.exit(0) once the awaited drain has returned
closeAndExit(log) == log \o <<"drained", "sqlite.close", "exit(0)">>

\* a variant of the handler that does not test the flag
SignalUnguarded(sig) ==
  /\ signalled < MaxSignals
  /\ signalled' = signalled + 1
  /\ shutdown # "exited"
  /\ shuttingDown' = TRUE
  /\ shutdownLog' = shutdownLog \o <<"cleanup.stop", "app.stop">>
  /\ shutdown' = "app.stop"
  /\ UNCHANGED <<coreVars, drainVars>>

\* process.on(sig, () => shutdown(sig)) up to await app.stop()
Signal(sig) ==
  /\ signalled < MaxSignals
  /\ signalled' = signalled + 1
  /\ shutdown # "exited"
  /\ IF shuttingDown
     THEN UNCHANGED <<shuttingDown, shutdown, shutdownLog>>
     ELSE /\ shuttingDown' = TRUE
          /\ shutdownLog' = shutdownLog \o <<"cleanup.stop", "app.stop">>
          /\ shutdown' = "app.stop"
  /\ UNCHANGED <<coreVars, drainVars>>

\* app.stop() settles: on rejection the handler's catch exits with 1, else
\* drain is called and, when it returns at once, the database is closed
AppStopped(ok) ==
  /\ shutdown = "app.stop"
  /\ UNCHANGED <<shuttingDown, signalled>>
  /\ IF ~ok
     THEN /\ shutdownLog' = shutdownLog \o <<"exit(1)">>
          /\ shutdown' = "exited"
          /\ UNCHANGED <<coreVars, drainVars>>
     ELSE /\ Drain
          /\ IF drainCall' = "returned"
             THEN /\ shutdownLog' = closeAndExit(shutdownLog \o <<"app.stopped", "drain">>)
                  /\ shutdown' = "exited"
             ELSE /\ shutdownLog' = shutdownLog \o <<"app.stopped", "drain">>
                  /\ shutdown' = "drain"

\* the reaction of shutdown to a step that makes drain return
ShutdownFollow ==
  /\ shutdown # "exited"
  /\ UNCHANGED <<shuttingDown, signalled>>
  /\ IF shutdown = "drain" /\ drainCall' = "returned"
     THEN shutdownLog' = closeAndExit(shutdownLog) /\ shutdown' = "exited"
     ELSE UNCHANGED <<shutdown, shutdownLog>>

ShutdownNext ==
  \/ \E sig \in {"SIGTERM", "SIGINT"} : Signal(sig) /\ UNCHANGED nonShutdown
  \/ \E ok \in BOOLEAN : AppStopped(ok) /\ UNCHANGED nonShutdown
  \/ DrainTimeout /\ ShutdownFollow /\ UNCHANGED nonShutdown
  \/ ExecuteRejected /\ DrainFollow /\ ShutdownFollow /\ UNCHANGED nonShutdown
  \/ ExecuteLaunched /\ DrainFollow /\ ShutdownFollow /\ UNCHANGED nonShutdown
  \/ \E e \in Execs :
       OnResult(e, taskCap[e]) /\ DrainFollow /\ ShutdownFollow /\ UNCHANGED nonShutdown
  \/ \E e \in Execs :
       /\ OnExit(e, [code |-> None, signal |-> Some("SIGTERM")])
       /\ DrainFollow /\ ShutdownFollow /\ UNCHANGED nonShutdown
  \/ \E e \in Execs : Timeout(e) /\ DrainFollow /\ ShutdownFollow /\ UNCHANGED nonShutdown
  \/ \E e \in Execs : KillComplete(e) /\ DrainFollow /\ ShutdownFollow /\ UNCHANGED nonShutdown

SpecShutdown == ShutdownInit /\ [][ShutdownNext]_vars

\* ================================================================= claims
Settled(e) == promise[e].state \in {"resolved", "rejected"}
TimedOut == [state |-> "rejected", value |-> Text("Task timed out")]
MessageStep(e) ==
  \E cost \in 0..PerTaskCap :
    OnResult(e, cost) \/ \E path \in {"sdk", "catch"} : OnError(e, cost, path)

\* C1: once the persisted status of an execution is completed, failed, error
\* or timeout, no later step changes that status.
C1_TerminalStatusFinal ==
  [][\A e \in Execs :
       executions[e].status \in TerminalStatus
         => executions'[e].status = executions[e].status]_vars

\* C2: after the timer has settled an execution as timeout, a result or error
\* message delivered later leaves status, result text, error message and cost
\* of the row as they were.
C2_LateMessageIgnored ==
  [][\A e \in Execs :
       (executions[e].status = "timeout" /\ promise[e] = TimedOut /\ MessageStep(e))
         => /\ executions'[e].status = executions[e].status
            /\ executions'[e].resultText = executions[e].resultText
            /\ executions'[e].errorMessage = executions[e].errorMessage
            /\ executions'[e].costUsd = executions[e].costUsd]_vars

\* C3: an execution whose timer fired and that never received a result or
\* error message has status timeout, also after the exit notification of the
\* killed worker.
C3_TimeoutStatusKept ==
  \A e \in Execs :
    (timer[e] = "fired" /\ ~resultReceived[e]) => executions[e].status = "timeout"

\* C4: when the timer of an unsettled execution fires, a kill is requested for
\* that execution's worker identifier and the promise is rejected with
\* "Task timed out" in the same step, while the kill is still outstanding.
C4_TimeoutKillsAndRejects ==
  [][\A e \in Execs :
       (timer[e] = "armed" /\ timer'[e] = "fired" /\ promise[e].state = "pending")
         => /\ runnerId[e] = Some(e)
            /\ kills'[e] = "requested"
            /\ promise'[e] = TimedOut]_vars

C4_Witness ==
  \E e \in Execs :
    /\ timer[e] = "fired"
    /\ kills[e] = "requested"
    /\ promise[e] = TimedOut
    /\ worker[e] = "alive"

\* C5: an execution settled by a result, an error, the timeout, a worker exit
\* or a launch failure has had the counter decremented exactly once for it;
\* no release function ever decrements twice, so the counter is the number
\* of reservations taken minus the number of settled executions.
C5_ReleasedExactlyOnce ==
  /\ \A e \in Execs :
       /\ decrements[e] <= 1
       /\ (Settled(e) => (decrements[e] = 1 /\ released[e] = "released"))
  /\ pendingReservations =
       Cardinality({e \in Execs : released[e] # "unused"})
         - Cardinality({e \in Execs : Settled(e)})

\* a timed-out execution whose worker has since written a message and exited
C5_Witness ==
  \E e \in Execs :
    /\ promise[e] = TimedOut
    /\ resultReceived[e]
    /\ worker[e] = "exited"
    /\ decrements[e] = 1

\* C6: when execute throws after the reservation was taken (history load or
\* row insert), the reservation counter is back at its value before the call.
C6_ReleasedOnException ==
  [][(\E failAt \in {"history", "insert"} : ExecuteThrows(failAt))
       => pendingReservations' = pendingReservations]_vars

\* C7: with workers that report at most the cap they were given, the sum of
\* the costs on today's rows never exceeds the daily limit.
C7_DailyCostWithinLimit ==
  getDailyCost(executions) <= DailyLimit

\* C8: checkBudget returns remaining = max(0, dailyLimit - used - reserved *
\* cap) and allowed = (remaining >= cap); with 10, 3, nothing used and three
\* reservations it returns not allowed with 1 remaining; the call changes
\* neither the counter nor a row.
C8_CheckBudgetFormula ==
  [][\A dl \in DailyLimitArgs : \A cap \in PerTaskCapArgs :
       TCheckBudget(dl, cap) =>
         LET raw == dl - getDailyCost(executions) - pendingReservations * cap
             b == lastBudget'[1]
         IN /\ b.remaining >= 0
            /\ (raw >= 0 => b.remaining = raw)
            /\ (raw < 0 => b.remaining = 0)
            /\ (b.allowed <=> (b.remaining >= cap))
            /\ ((dl = 10 /\ cap = 3 /\ getDailyCost(executions) = 0
                   /\ pendingReservations = 3)
                  => (~b.allowed /\ b.remaining = 1))
            /\ pendingReservations' = pendingReservations
            /\ released' = released
            /\ executions' = executions]_vars

C8_Witness ==
  /\ lastBudget = Some([dailyLimit |-> 10, maxBudgetPerTask |-> 3,
                        allowed |-> FALSE, remaining |-> 1])
  /\ getDailyCost(executions) = 0
  /\ pendingReservations = 3

\* C9: however often a release function is called, it decrements the counter
\* once, and only for its own reservation: the counter is the number of
\* reservations taken minus the number of release functions called at all.
C9_ReleaseIdempotent ==
  /\ \A h \in DOMAIN released :
       decrements[h] = IF releaseCalls[h] >= 1 THEN 1 ELSE 0
  /\ pendingReservations =
       Cardinality({h \in DOMAIN released : released[h] # "unused"})
         - Cardinality({h \in DOMAIN released : releaseCalls[h] >= 1})

C9_Witness ==
  \E h, g \in DOMAIN released :
    /\ releaseCalls[h] >= 2
    /\ released[g] = "held"
    /\ pendingReservations = 1

\* C10: a step taken while the budget check reports not allowed creates no
\* row, takes no reservation, launches no worker, starts no timer and adds
\* nothing to the registry; the rejected call itself changes nothing at all.
C10_RejectionChangesNothing ==
  [][(~Budget.allowed =>
        (/\ pendingReservations' <= pendingReservations
         /\ activeExecutions' \subseteq activeExecutions
         /\ \A e \in Execs :
              /\ (executions[e].status = "none" => executions'[e].status = "none")
              /\ (released[e] = "unused" => released'[e] = "unused")
              /\ (worker[e] = "none" => worker'[e] = "none")
              /\ (timer[e] = "none" => timer'[e] = "none")))
     /\ ((lastCall # "budget_exceeded" /\ lastCall' = "budget_exceeded") =>
           (/\ ~Budget.allowed
            /\ UNCHANGED <<executions, trackerVars, closureVars, activeExecutions>>))]_vars

\* a call was rejected while an execution was in flight
C10_Witness ==
  /\ lastCall = "budget_exceeded"
  /\ ~Budget.allowed
  /\ activeExecutions # {}

\* C14 as stated: whenever the exit notification arrives for an execution that
\* never received a result or error message, the row becomes error with the
\* message built from exit code, signal and worker id and the promise is
\* rejected with that message; after a message, the exit changes nothing.
ExitStep(e) == worker[e] \in Running /\ worker'[e] = "exited"

\* the text a reader of the row expects for worker e ending with st
ExitedWith(e, st) ==
  <<"Runner exited without IPC result", st.code, st.signal, Some(e)>>

C14_ExitAlwaysSettlesAsError ==
  [][\A e \in Execs :
       ExitStep(e) =>
         /\ (~resultReceived[e] =>
               \E st \in ExitStatuses :
                 /\ executions'[e].status = "error"
                 /\ executions'[e].errorMessage = ExitedWith(e, st)
                 /\ promise'[e] = [state |-> "rejected", value |-> ExitedWith(e, st)])
         /\ (resultReceived[e] =>
               (executions'[e] = executions[e] /\ promise'[e] = promise[e]))]_vars

\* C14 (amended): when the exit notification arrives for an execution that
\* never received a result or error message and whose promise is still
\* pending (its timer has not fired), the row becomes error with the message
\* built from exit code, signal and worker id and the promise is rejected
\* with that message; when a result or error message was received before the
\* exit, the exit changes neither the row nor the promise.
C14_ExitSettlesUnsettledAsError ==
  [][\A e \in Execs :
       ExitStep(e) =>
         /\ ((~resultReceived[e] /\ promise[e].state = "pending") =>
               \E st \in ExitStatuses :
                 /\ executions'[e].status = "error"
                 /\ executions'[e].errorMessage = ExitedWith(e, st)
                 /\ promise'[e] = [state |-> "rejected", value |-> ExitedWith(e, st)])
         /\ (resultReceived[e] =>
               (executions'[e] = executions[e] /\ promise'[e] = promise[e]))]_vars

\* a worker that died of a signal before reporting anything
C14_Witness ==
  \E e \in Execs :
    /\ worker[e] = "exited"
    /\ ~resultReceived[e]
    /\ executions[e].status = "error"
    /\ promise[e] = [state |-> "rejected",
                     value |-> <<"Runner exited without IPC result", None,
                                 Some("SIGTERM"), Some(e)>>]

\* C15: a result message received while the execution is running and its
\* promise pending sets status completed, stores the message's text, cost,
\* four token counts, duration and turn count, and resolves the promise with
\* text, cost and execution id; an error message sets status failed, stores
\* its error text, cost and usage, and rejects the promise with the error text.
Unsettled(e) == executions[e].status = "running" /\ promise[e].state = "pending"

Persisted(row, msg) ==
  /\ row.costUsd = Some(msg.costUsd)
  /\ row.inputTokens = Some(msg.tokensUsed.input)
  /\ row.outputTokens = Some(msg.tokensUsed.output)
  /\ row.cacheReadTokens = Some(msg.tokensUsed.cacheRead)
  /\ row.cacheWriteTokens = Some(msg.tokensUsed.cacheWrite)
  /\ row.durationMs = Some(msg.durationMs)
  /\ row.numTurns = Some(msg.numTurns)

C15_FirstMessageDecides ==
  [][\A e \in Execs : \A cost \in 0..PerTaskCap :
       Unsettled(e) =>
         /\ (OnResult(e, cost) =>
               (/\ executions'[e].status = "completed"
                /\ executions'[e].resultText = ResultMsg(cost).text
                /\ Persisted(executions'[e], ResultMsg(cost))
                /\ promise'[e] = [state |-> "resolved",
                                  value |-> <<ResultMsg(cost).text, cost, e>>]))
         /\ \A path \in {"sdk", "catch"} :
              (OnError(e, cost, path) =>
                (/\ executions'[e].status = "failed"
                 /\ executions'[e].errorMessage = ErrorMsg(cost, path).message
                 /\ Persisted(executions'[e], ErrorMsg(cost, path))
                 /\ promise'[e] = [state |-> "rejected",
                                   value |-> ErrorMsg(cost, path).message]))]_vars

\* one execution completed with a cost, another failed with partial usage
C15_Witness ==
  \E e, f \in Execs :
    /\ promise[e].state = "resolved"
    /\ executions[e].status = "completed"
    /\ executions[e].numTurns = Some(1)
    /\ promise[f] = [state |-> "rejected", value |-> Text("error_max_turns")]
    /\ executions[f].status = "failed"
    /\ executions[f].inputTokens = Some(3)

C17_EventuallySettles ==
  \A e \in Execs : (promise[e].state = "pending") ~> Settled(e)

\* settled although the worker never reported and never exited
C17_Witness ==
  \E e \in Execs :
    /\ Settled(e)
    /\ worker[e] = "alive"
    /\ ~resultReceived[e]
    /\ kills[e] = "done"

\* C20 as stated: a payload built from a history of L > N messages has
\* exactly N entries, the first a system note of L - N omitted messages; 25
\* messages with N = 20 give 20 entries.
Conversation(n) == [i \in 1..n |-> [role |-> "user", content |-> Content(i)]]

NoteOf(n) == [role |-> "system", content |-> omittedNote(n)]

C20_PayloadHasNEntries ==
  [][(BuildPayload /\ Len(history) > maxHistoryMessages) =>
       LET p == conversationHistory'[1]
       IN /\ Len(p) = maxHistoryMessages
          /\ p[1] = NoteOf(Len(history) - maxHistoryMessages)
          /\ Len(truncateHistory(Conversation(25), 20)) = 20]_vars

\* C20 (amended): a payload built from a history of L > N messages, N >= 1,
\* has exactly N + 1 entries: a system note of L - N omitted messages followed
\* by the N most recent messages in order; 25 messages with N = 20 give 21
\* entries and a note of 5 omitted.
C20_PayloadHasNotePlusN ==
  [][(BuildPayload /\ Len(history) > maxHistoryMessages /\ maxHistoryMessages >= 1) =>
       LET p == conversationHistory'[1]
           L == Len(history)
           N == maxHistoryMessages
           q == truncateHistory(Conversation(25), 20)
       IN /\ Len(p) = N + 1
          /\ p[1] = NoteOf(L - N)
          /\ \A i \in 1..N : p[i + 1] = history[L - N + i]
          /\ Len(q) = 21
          /\ q[1] = NoteOf(5)
          /\ \A i \in 1..20 : q[i + 1] = Conversation(25)[5 + i]]_vars

\* a payload of a note and the two most recent of four messages
C20_Witness ==
  /\ Len(history) = 4
  /\ maxHistoryMessages = 2
  /\ conversationHistory # None
  /\ Len(conversationHistory[1]) = 3
  /\ conversationHistory[1][1] = NoteOf(2)
  /\ conversationHistory[1][3] = history[4]

\* C13: the message callback has been invoked for the valid prefixed messages
\* the worker wrote, in the order written; the exit notification is delivered
\* at most once, after the callback of the last message written, with no line
\* left in the pipe, and it has been delivered once the child is closed.
ValidMessages(lines) ==
  LET ok == SelectSeq(lines, LAMBDA l : Accepted(l) # None)
  IN [i \in 1..Len(ok) |-> Accepted(ok[i])[1]]

C13_MessagesInOrderThenExit ==
  LET msgs == SelectSeq(callbacks, LAMBDA c : c[1] = "onMessage")
      exits == SelectSeq(callbacks, LAMBDA c : c[1] = "onExit")
      sent == ValidMessages(emitted)
  IN /\ Len(msgs) <= Len(sent)
     /\ \A i \in 1..Len(msgs) : msgs[i][2] = sent[i]
     /\ Len(exits) <= 1
     /\ (Len(exits) = 1 =>
           (/\ callbacks[Len(callbacks)] = <<"onExit">>
            /\ Len(msgs) = Len(sent)
            /\ stderr = <<>>))
     /\ (child = "closed" <=> Len(exits) = 1)

\* two messages and a line that is not one, then the exit notification
C13_Witness ==
  /\ child = "closed"
  /\ Len(emitted) = 3
  /\ Len(callbacks) = 3
  /\ callbacks[1][1] = "onMessage"
  /\ callbacks[2][1] = "onMessage"
  /\ callbacks[3] = <<"onExit">>

\* C18: when drain's deadline timer fires while drain is waiting, a kill is
\* requested for every execution in the registry at that moment and drain
\* returns in that step, leaving those executions unsettled; a waiting drain
\* always returns.
C18_DeadlineKillsAndReturns ==
  /\ [][(drainCall = "waiting" /\ drainTimer = "armed" /\ drainTimer' = "fired") =>
         (/\ \A e \in activeExecutions :
               (kills'[e] = "requested" /\ e \in drainKills')
          /\ drainCall' = "returned"
          /\ promise' = promise
          /\ activeExecutions' = activeExecutions)]_vars
  /\ ((drainCall = "waiting") ~> (drainCall = "returned"))

\* the deadline passed with two executions in the registry, one of them
\* started after drain was called
C18_Witness ==
  /\ drainCall = "returned"
  /\ drainTimer = "fired"
  /\ Cardinality(drainKills) = 2
  /\ drainKills \ drainPromise # {}
  /\ \A e \in drainKills : promise[e].state = "pending" /\ kills[e] = "requested"

\* C19: a drain that has returned before its deadline has requested no kill
\* and every execution it tracked is settled; it returns in the step that
\* settles the last of them; called on an empty registry it returns at once
\* and starts no timer.
C19_DrainReturnsWhenAllSettled ==
  /\ []((drainCall = "returned" /\ drainTimer # "fired") =>
          (drainKills = {} /\ \A e \in drainPromise : Settled(e)))
  /\ [][(drainCall = "waiting" /\ drainTimer' = "armed"
            /\ \A e \in drainPromise : promise'[e].state \in {"resolved", "rejected"})
          => (drainCall' = "returned" /\ drainKills' = {})]_vars
  /\ [][(drainCall = "none" /\ drainCall' # "none" /\ activeExecutions = {})
          => (drainCall' = "returned" /\ drainTimer' = "none")]_vars

\* two tracked executions, one resolved and one rejected, before the deadline
C19_Witness ==
  /\ drainCall = "returned"
  /\ drainTimer = "armed"
  /\ drainKills = {}
  /\ Cardinality(drainPromise) = 2
  /\ \E e, f \in drainPromise :
       promise[e].state = "resolved" /\ promise[f].state = "rejected"

\* C11: at most one execution is in flight per thread key.
InFlight(t) ==
  {m \in Msgs : /\ handlers[m].threadKey = t
                /\ handlers[m].execution # None
                /\ promise[handlers[m].execution[1]].state = "pending"}

C11_OneInFlightPerThread ==
  \A t \in ThreadKeys : Cardinality(InFlight(t)) <= 1

\* C12: a message that arrives for a thread whose lock is held gets the
\* please-wait notice and nothing else: no execute call (rows, reservations,
\* registry, workers untouched), nothing appended to the history, the lock
\* and the other handlers as they were, and its handler takes no later step.
C12_LockedThreadOnlyNotice ==
  [][\A m \in Msgs :
       /\ ((handlers[m].pc = "idle" /\ handlers'[m].pc # "idle"
               /\ handlers'[m].threadKey \in threadLocks) =>
             (/\ handlers'[m].pc = "waited"
              /\ posted'[m] = {"please_wait"}
              /\ handlers'[m].execution = None
              /\ messages' = messages
              /\ threadLocks' = threadLocks
              /\ \A o \in Msgs \ {m} : handlers'[o] = handlers[o] /\ posted'[o] = posted[o]
              /\ UNCHANGED coreVars))
       /\ (handlers[m].pc = "waited" =>
             (handlers'[m] = handlers[m] /\ posted'[m] = posted[m]))]_vars

\* a message was turned away while the first one of its thread is executing
C12_Witness ==
  \E m, o \in Msgs :
    /\ handlers[m].pc = "waited"
    /\ posted[m] = {"please_wait"}
    /\ handlers[o].pc = "executing"
    /\ handlers[o].threadKey = handlers[m].threadKey
    /\ promise[handlers[o].execution[1]].state = "pending"
    /\ handlers[m].threadKey \in threadLocks

\* C21: a payload built from a history of L messages with maxHistoryMessages
\* N >= 0 is the history itself when L <= N; when L > N it is one system note
\* stating L - N followed by exactly the N most recent messages in their
\* order (for N = 0, the note alone).
C21_TruncatedToNoteAndNRecent ==
  [][BuildPayload =>
       LET p == conversationHistory'[1]
           L == Len(history)
           N == maxHistoryMessages
       IN IF L <= N
          THEN p = history
          ELSE /\ Len(p) = N + 1
               /\ p[1] = NoteOf(L - N)
               /\ \A i \in 1..N : p[i + 1] = history[L - N + i]]_vars

\* C22: for each execution, any two invocations of the progress callback are
\* at least 3000 ms apart; the first progress message of the execution is
\* delivered; every invocation happens at the arrival of its message; and a
\* message is dropped exactly when it arrives less than 3000 ms after the
\* last delivered one, whatever was dropped in between.
Delivered(m) == \E j \in 1..Len(onProgress) : onProgress[j].text = m.text

C22_ProgressDebounced ==
  /\ \A i, j \in 1..Len(onProgress) :
       (i < j /\ onProgress[i].execution = onProgress[j].execution) =>
         onProgress[j].at - onProgress[i].at >= 3000
  /\ \A j \in 1..Len(onProgress) :
       \E k \in 1..Len(arrived) : arrived[k] = onProgress[j]
  /\ \A k \in 1..Len(arrived) :
       LET earlier == {i \in 1..(k - 1) :
                         /\ arrived[i].execution = arrived[k].execution
                         /\ Delivered(arrived[i])}
       IN Delivered(arrived[k]) <=>
            \A i \in earlier : arrived[k].at - arrived[i].at >= 3000

\* three messages of one execution: the first delivered, the second dropped
\* inside the window, the third delivered 3000 ms or more after the first
\* although less than 3000 ms after the dropped one
C22_Witness ==
  /\ Len(arrived) = 3
  /\ \A k \in 1..3 : arrived[k].execution = arrived[1].execution
  /\ Delivered(arrived[1])
  /\ ~Delivered(arrived[2])
  /\ Delivered(arrived[3])
  /\ arrived[3].at - arrived[2].at < 3000

\* C23: a line made of the prefix and serializeIpc(m), m a progress, result
\* or error message, is handed to the message callback as a value equal to m;
\* a line that does not start with "@flowmate " invokes no message callback,
\* whatever follows.
Handled == Len(emitted) = 1 /\ stderr = <<>>

C23_RoundTripAndPrefix ==
  Handled =>
    /\ ((written # None /\ written[1] \in IpcMessages /\ startsWith(emitted[1], IPC_PREFIX)) =>
          callbacks = << <<"onMessage", written[1]>> >>)
    /\ (~startsWith(emitted[1], IPC_PREFIX) => callbacks = <<>>)

\* a result whose text is a quote and a line feed has come back as it was
C23_Witness ==
  /\ Handled
  /\ written = Some(IpcResultMessage(<<"\"", "\n">>, 12, 3))
  /\ callbacks = << <<"onMessage", written[1]>> >>

\* the serialization of a message behind a prefix without its blank: no callback
C23_WitnessUnprefixed ==
  /\ Handled
  /\ written # None /\ written[1] \in IpcMessages
  /\ ~startsWith(emitted[1], IPC_PREFIX)
  /\ callbacks = <<>>

\* C24: a prefixed line is handed on as a message exactly when it is the JSON
\* text of an object whose type is progress, result or error and, for
\* progress, text is a string; for result and error, costUsd and durationMs
\* are numbers, tokensUsed is an object, and text (result) or message (error)
\* is a string. Any other prefixed line (another type, a member missing or of
\* another type, JSON that is no object, broken JSON, a blank line) yields null.
IsObject(v) == v[1] \in {"object", "array"}

Conforms(o) ==
  LET ty == get(o, KType)
      metrics == /\ get(o, KCostUsd)[1] = "number"
                 /\ get(o, KDurationMs)[1] = "number"
                 /\ IsObject(get(o, KTokensUsed))
  IN /\ o[1] = "object"
     /\ ty[1] = "string"
     /\ \/ ty[2] = TProgress /\ get(o, KText)[1] = "string"
        \/ ty[2] = TResult /\ metrics /\ get(o, KText)[1] = "string"
        \/ ty[2] = TError /\ metrics /\ get(o, KMessage)[1] = "string"

C24_AcceptsExactlyConforming ==
  (Handled /\ startsWith(emitted[1], IPC_PREFIX)) =>
    IF written # None /\ Conforms(written[1])
    THEN callbacks = << <<"onMessage", written[1]>> >>
    ELSE callbacks = <<>>

\* an error message whose tokensUsed is null has been refused
C24_Witness ==
  /\ Handled
  /\ startsWith(emitted[1], IPC_PREFIX)
  /\ written # None
  /\ get(written[1], KType) = JStr(TError)
  /\ get(written[1], KMessage)[1] = "string"
  /\ get(written[1], KCostUsd)[1] = "number"
  /\ get(written[1], KDurationMs)[1] = "number"
  /\ get(written[1], KTokensUsed) = JNull
  /\ callbacks = <<>>

\* C25: the 'line' event of a line that is unprefixed, or prefixed but not a
\* valid message, invokes no callback and leaves the execution as it was (row,
\* timer, reservation, promise, registry); and once every line written has
\* had its event, the message callback has run for every valid message
\* written, those after such a line included, and the outcome among them is
\* in the row.
LineEvent == stderr # <<>> /\ stderr' = Tail(stderr)

C25_BadLineChangesNothing ==
  /\ [][(LineEvent /\ Accepted(Head(stderr)) = None) =>
          /\ callbacks' = callbacks
          /\ onProgress' = onProgress
          /\ UNCHANGED <<executions, timer, promise, resultReceived, activeExecutions,
                         pendingReservations, released>>]_vars
  /\ [](stderr = <<>> =>
          LET valid == ValidMessages(emitted)
          IN /\ SelectSeq(callbacks, LAMBDA c : c[1] = "onMessage")
                  = [i \in 1..Len(valid) |-> <<"onMessage", valid[i]>>]
             /\ \A i \in 1..Len(valid) :
                  get(valid[i], KType)[2] \in {TResult, TError} =>
                    /\ resultReceived[1]
                    /\ executions[1].status =
                         (IF get(valid[i], KType)[2] = TResult
                          THEN "completed" ELSE "failed")
                    /\ executions[1].costUsd = Some(get(valid[i], KCostUsd)[2]))

\* a prefixed line that is no message, then debug output, then the result,
\* which has completed the execution
C25_Witness ==
  /\ Len(emitted) = 3
  /\ startsWith(emitted[1], IPC_PREFIX) /\ Accepted(emitted[1]) = None
  /\ ~startsWith(emitted[2], IPC_PREFIX)
  /\ Outcome(emitted[3])
  /\ stderr = <<>>
  /\ Len(callbacks) = 1
  /\ executions[1].status = "completed"
  /\ promise[1].state = "resolved"

\* C26: kill on a live worker sends SIGTERM in the call; SIGKILL is sent only
\* when the forceKill timer of a kill call on that worker fires while the
\* worker has not exited, after the SIGTERM; no signal is sent to a worker
\* that has exited; and a kill call that waits returns.
KillStep(k) == killCalls[k].state = "none" /\ killCalls'[k].state # "none"

Target(k) == killCalls'[k].containerId[1]

C26_TermThenKillAfterGrace ==
  /\ [][\A k \in Kills :
          (KillStep(k) /\ proc[Target(k)].state = "running") =>
            signals'[Target(k)] = Append(signals[Target(k)], "SIGTERM")]_vars
  /\ [][\A id \in Procs :
          (/\ Len(signals'[id]) > Len(signals[id])
           /\ signals'[id][Len(signals'[id])] = "SIGKILL") =>
            /\ proc[id].state = "running"
            /\ \E i \in 1..Len(signals[id]) : signals[id][i] = "SIGTERM"
            /\ \E k \in Kills : /\ killCalls[k].containerId = Some(id)
                                /\ killCalls[k].forceKill = "armed"
                                /\ killCalls'[k].forceKill = "fired"]_vars
  /\ [][\A id \in Procs :
          proc[id].state \in {"exited", "closed"} => signals'[id] = signals[id]]_vars
  /\ \A k \in Kills : (killCalls[k].state = "waiting") ~> (killCalls[k].state = "returned")

\* a worker that outlived the grace period: SIGTERM, then SIGKILL, and the
\* call has returned
C26_Witness ==
  \E k \in Kills :
    /\ killCalls[k] = [state |-> "returned", containerId |-> Some(1), forceKill |-> "fired"]
    /\ signals[1] = <<"SIGTERM", "SIGKILL">>

\* C27: a kill call whose identifier was never launched, or whose worker has
\* already exited, sends no signal, changes nothing in the backend (processes,
\* children, timers) and returns at once; and a kill call on a worker that
\* was already told to stop changes nothing about the worker but the SIGTERM
\* it sends.
C27_KillIdempotent ==
  [][\A k \in Kills :
       KillStep(k) =>
         /\ (proc[Target(k)].state \in {"none", "exited", "closed"} =>
               /\ signals' = signals
               /\ processes' = processes
               /\ proc' = proc
               /\ killCalls'[k].state = "returned"
               /\ killCalls'[k].forceKill = "none")
         /\ (signals[Target(k)] # <<>> =>
               /\ proc' = proc
               /\ processes' = processes
               /\ signals'[Target(k)] \in {signals[Target(k)],
                                           Append(signals[Target(k)], "SIGTERM")})]_vars

\* C28: an execute call whose launch raises ends, in the call, with the row
\* at status error and the exception's message, the promise rejected with the
\* exception, the timer cleared, the reservation released and the execution
\* out of the registry; afterwards the timer never fires and the row stays.
LaunchFailed(e) == worker[e] = "none" /\ promise[e].state = "rejected"

C28_LaunchFailureSettlesAsError ==
  /\ [][\A e \in Execs :
          (promise[e].state = "none" /\ LaunchFailed(e)') =>
            /\ executions'[e].status = "error"
            /\ executions'[e].errorMessage = Text("spawn failed")
            /\ promise'[e].value = Text("spawn failed")
            /\ timer'[e] = "cleared"
            /\ released'[e] = "released"
            /\ releaseCalls'[e] = 1
            /\ pendingReservations' = pendingReservations
            /\ e \notin activeExecutions']_vars
  /\ [][\A e \in Execs :
          LaunchFailed(e) =>
            /\ timer'[e] = "cleared"
            /\ executions'[e] = executions[e]
            /\ promise'[e] = promise[e]
            /\ e \notin activeExecutions']_vars

\* a launch that failed, its reservation given back, and the next execution
\* admitted and running
C28_Witness ==
  /\ LaunchFailed(1)
  /\ executions[1].status = "error"
  /\ executions[1].errorMessage = Text("spawn failed")
  /\ timer[1] = "cleared"
  /\ released[1] = "released"
  /\ worker[2] = "alive"
  /\ pendingReservations = 1

\* C29: a caller that has handled a rejection of execute has shown a failure
\* notice with the error's message and has appended an assistant message
\* with the error text to the conversation: the chat handler in its thread,
\* the CLI in its conversation.
Rejection(h) ==
  IF h.execution # None /\ promise[h.execution[1]].state = "rejected"
  THEN Some(promise[h.execution[1]].value)
  ELSE IF h.execution = None /\ h.error # None THEN h.error
  ELSE None

HasErrorMessage(msgs, err) ==
  \E i \in 1..Len(msgs) :
    /\ msgs[i].role = "assistant"
    /\ msgs[i].content \in {err, <<"Error: ", err>>}

C29_RejectionShownAndSaved ==
  /\ \A m \in Msgs :
       (handlers[m].pc \in {"done", "threw"} /\ handlers[m].threadKey # NULL
          /\ Rejection(handlers[m]) # None) =>
         /\ "error" \in posted[m]
         /\ HasErrorMessage(messages[handlers[m].threadKey], Rejection(handlers[m])[1])
  /\ (cli.pc = "done" /\ Rejection(cli) # None) =>
       /\ \E i \in 1..Len(console) : console[i] = <<"--- error ---", Rejection(cli)[1]>>
       /\ HasErrorMessage(cliMessages, Rejection(cli)[1])

\* C30: getDailyCost(date) is the sum of the costs (none counted as 0) of
\* exactly the rows whose start instant lies from local midnight of the date
\* (inclusive) to local midnight of the next date (exclusive) in the
\* configured timezone, also when the offset changes on that date.
LocalMidnight(day, tz) ==
  CHOOSE t \in (24 * day - 14)..(24 * day + 14) : t + utcOffset(tz, t) = 24 * day

RECURSIVE SumWithin(_, _, _)
SumWithin(rows, from, to) ==
  IF rows = <<>> THEN 0
  ELSE (IF from <= Head(rows).startedAt /\ Head(rows).startedAt < to
        THEN (IF Head(rows).costUsd = None THEN 0 ELSE Head(rows).costUsd[1])
        ELSE 0)
       + SumWithin(Tail(rows), from, to)

C30_DailyCostOfLocalDay ==
  [][\A day \in Days :
       (lastDaily' # lastDaily /\ lastDaily'[1].date = day) =>
         lastDaily'[1].total =
           SumWithin(started, LocalMidnight(day, timezone), LocalMidnight(day + 1, timezone))]_vars

\* C31: the record is created with status pending and set to running
\* before the launch is requested; when the backend's run is invoked the
\* persisted status is running and containerId is null; containerId is
\* written only by the reaction to a launch that succeeded.
C31_RunningBeforeLaunch ==
  \A e \in Execs :
    LET log == launchLog[e]
        runs == {i \in DOMAIN log : log[i][1] = "run"}
    IN /\ (executions[e].status # "none") <=> (log # <<>>)
       /\ (log # <<>>) =>
            /\ log[1][1] = "insert" /\ log[1][2] = "pending"
            /\ runs # {}
            /\ \A i \in runs :
                 /\ log[i][2] = "running"
                 /\ log[i][3] = None
                 /\ \E j \in 1..(i - 1) :
                      log[j][1] = "update" /\ log[j][2] = "running"
            /\ \A j \in DOMAIN log :
                 (log[j][3] # None) =>
                   (log[j][1] = "then" /\ \E i \in runs : i < j)
       /\ (executions[e].containerId # None) =>
            (\E j \in DOMAIN log : log[j][1] = "then")

C31_Witness ==
  \E e, f \in Execs :
    /\ executions[e].containerId # None
    /\ launchLog[e][3][1] = "run"
    /\ launchLog[f] # <<>>
    /\ launchLog[f][4][1] = "catch"

\* C32: between steps the registry holds exactly the executions whose launch
\* was requested and whose promise has not settled; an entry enters in the
\* step that requests the launch and leaves in the step that settles the
\* promise, by whatever outcome.
LaunchRequested(e) == \E i \in DOMAIN launchLog[e] : launchLog[e][i][1] = "run"

PromisePending(e) == promise[e].state = "pending"

C32_RegistryIsLaunchedUnsettled ==
  activeExecutions = {e \in Execs : LaunchRequested(e) /\ PromisePending(e)}

C32_Witness ==
  \E e, f \in Execs :
    /\ e \in activeExecutions
    /\ promise[f].state = "rejected" /\ executions[f].status = "timeout"
    /\ f \notin activeExecutions

\* C33: the cap in the task payload of an admitted execution is the smaller
\* of the configured per-task cap and the remaining budget that the budget
\* check of the same call computed (limit less recorded cost less one cap per
\* outstanding reservation, not below 0); it never exceeds that remainder.
Admitted(e) == launchLog[e] = <<>> /\ launchLog'[e] # <<>>

RemainingAtCheck ==
  LET left == limits.dailyBudgetLimit - getDailyCost(executions)
                - pendingReservations * limits.maxBudgetPerTask
  IN IF left > 0 THEN left ELSE 0

C33_CapIsMinOfCapAndRemaining ==
  [][\A e \in Execs :
       Admitted(e) =>
         /\ taskCap'[e] = IF limits.maxBudgetPerTask <= RemainingAtCheck
                          THEN limits.maxBudgetPerTask ELSE RemainingAtCheck
         /\ taskCap'[e] <= RemainingAtCheck]_vars

\* an execution admitted next to a recorded cost and a held reservation,
\* with more left of the day's budget than one cap
C33_Witness ==
  \E e, f \in Execs :
    /\ e # f
    /\ worker[f] = "alive" /\ worker[e] = "alive"
    /\ taskCap[f] = limits.maxBudgetPerTask
    /\ limits.dailyBudgetLimit - pendingReservations * limits.maxBudgetPerTask > 0

\* C34: whatever signals arrive, shutdown's body runs at most once (each of
\* its calls is made at most once), drain is called only after app.stop has
\* returned, and the database is closed only after drain has returned.
Positions(log, op) == {i \in DOMAIN log : log[i] = op}

C34_ShutdownOnceInOrder ==
  /\ \A op \in {"cleanup.stop", "app.stop", "drain", "sqlite.close", "exit(0)", "exit(1)"} :
       Cardinality(Positions(shutdownLog, op)) <= 1
  /\ \A i \in Positions(shutdownLog, "drain") :
       \E j \in Positions(shutdownLog, "app.stopped") : j < i
  /\ \A i \in Positions(shutdownLog, "sqlite.close") :
       \E j \in Positions(shutdownLog, "drained") :
         /\ j < i
         /\ \E k \in Positions(shutdownLog, "drain") : k < j
  /\ (shutdown = "drain") => (drainCall = "waiting")
  /\ (Positions(shutdownLog, "sqlite.close") # {}) => (drainCall = "returned")

\* a signal arrived while drain was being awaited, and the database was
\* closed after drain's deadline killed what was left
C34_Witness ==
  /\ signalled >= 2
  /\ drainTimer = "fired"
  /\ drainKills # {}
  /\ shutdownLog = <<"cleanup.stop", "app.stop", "app.stopped", "drain", "drained",
                     "sqlite.close", "exit(0)">>

\* C35: once the promise of an execution has resolved its row is at status
\* completed in every later state; once it has rejected its row is never at
\* status completed and the cost on the row never changes again.
C35_OutcomeAgreesWithRow ==
  /\ [](\A e \in Execs :
          /\ (promise[e].state = "resolved") => (executions[e].status = "completed")
          /\ (promise[e].state = "rejected") => (executions[e].status # "completed"))
  /\ [][\A e \in Execs :
          (promise[e].state = "rejected") =>
            (executions'[e].costUsd = executions[e].costUsd)]_vars

\* C36: once the promise of an execution has settled, by whatever outcome,
\* params.onProgress is not invoked for it again, even when further progress
\* messages of its worker arrive.
C36_NoProgressAfterSettlement ==
  [][\A e \in Execs :
       (promise[e].state \in {"resolved", "rejected"}) =>
         \A j \in (Len(onProgress) + 1)..Len(onProgress') :
           onProgress'[j].execution # e]_vars

\* C37: between event-loop steps the registry has as many entries as there
\* are outstanding reservations (CostTracker.pendingReservations), and that
\* counter is never negative.
C37_ActiveCountIsReservations ==
  /\ Cardinality(activeExecutions) = pendingReservations
  /\ pendingReservations >= 0

\* C38: with a per-task cap above zero the registry never holds more than
\* floor(dailyBudgetLimit / maxBudgetPerTask) executions, in whatever order
\* execute calls and settlements come and whatever costs are on the rows.
C38_InFlightWithinBudget ==
  (limits.maxBudgetPerTask > 0) =>
    Cardinality(activeExecutions) <= limits.dailyBudgetLimit \div limits.maxBudgetPerTask

\* as many executions in flight as the limit has room for and the next call
\* turned away, after an earlier execution has ended by its timeout
C38_Witness ==
  /\ limits.maxBudgetPerTask > 0
  /\ Cardinality(activeExecutions) = limits.dailyBudgetLimit \div limits.maxBudgetPerTask
  /\ lastCall = "budget_exceeded"
  /\ \E e \in Execs : executions[e].status = "timeout"

\* C40: the cap in the task payload of every admitted execution is the
\* configured per-task cap itself: the clamp to the remaining budget never
\* lowers it, whatever cost is recorded and however many reservations are
\* outstanding at the call.
C40_ClampNeverLowersCap ==
  [][\A e \in Execs :
       Admitted(e) => taskCap'[e] = limits.maxBudgetPerTask]_vars

\* an execution admitted with the whole cap while a cost is on record
C40_Witness ==
  \E e, f \in Execs :
    /\ e < f
    /\ Coalesce(executions[e].costUsd) > 0
    /\ promise[e].state = "resolved"
    /\ promise[f].state = "pending"
    /\ taskCap[f] = limits.maxBudgetPerTask

\* C39: a handler that has taken the lock of its thread finishes, whatever
\* execute and its own Slack calls do, and when it finishes the lock of its
\* thread is free; a held lock is always released in the end; and a message
\* that arrives for a thread with no handler between the lock and its end is
\* accepted, not answered with the please-wait notice.
Locked(m) == handlers[m].pc \in {"executing", "failing"}

Finished(m) == handlers[m].pc \in {"done", "threw"}

C39_LockReleasedAfterEveryOutcome ==
  /\ (threadLocks # {} \/ \E m \in Msgs : Locked(m))
       ~> (threadLocks = {} /\ \A m \in Msgs : ~Locked(m))
  /\ [][\A m \in Msgs : Finished(m) => Finished(m)']_vars
  /\ [][\A m \in Msgs :
          (Locked(m) /\ Finished(m)') => (handlers[m].threadKey \notin threadLocks')]_vars
  /\ [][\A m \in Msgs : \A t \in ThreadKeys :
          (/\ handlers[m].pc = "idle"
           /\ handlers'[m].pc # "idle"
           /\ handlers'[m].threadKey = t
           /\ \A o \in Msgs : Locked(o) => handlers[o].threadKey # t)
          => (handlers'[m].pc = "preparing" /\ posted'[m] = {})]_vars

\* the handler of a message whose execution timed out and whose failure
\* notice could not be posted has ended, and the next message of the same
\* thread has been accepted and is executing
C39_Witness ==
  /\ handlers[1].pc = "threw"
  /\ handlers[1].execution # None
  /\ executions[handlers[1].execution[1]].status = "timeout"
  /\ handlers[2].threadKey = handlers[1].threadKey
  /\ handlers[2].pc = "executing"
  /\ handlers[2].execution[1] > handlers[1].execution[1]
  /\ posted[2] = {}

====
